---- MODULE Spec2Model ----
(***************************************************************************)
(* State-machine model of the HikeBot backend:                             *)
(*   - GroupConnectionManager and the group ingress loop group_ws          *)
(*     (src/backend/app.py),                                               *)
(*   - the group_messages table and its id sequence (src/backend/init_db.py,*)
(*     src/backend/pg_db.py),                                              *)
(*   - the HTTP message endpoint (src/backend/social_router.py),           *)
(*   - the lobby loop websocket_chat (src/backend/app.py),                 *)
(*   - AutoPlannerService.run_pipeline (src/backend/auto_planner_service.py)*)
(*                                                                         *)
(* Handlers running on the asyncio event loop are cut at their awaits:     *)
(* the code between two awaits is one atomic action.                       *)
(***************************************************************************)
EXTENDS Integers, Sequences, FiniteSets, TLC

\* ------------------------------------------------------------------ bounds
MaxConns == 2       \* group WebSocket connections opened in one behaviour
MaxSeq == 3         \* values drawn from the group_messages id sequence
MaxRuns == 1        \* run_pipeline calls in one behaviour
MaxLobby == 2       \* lobby WebSocket connections opened in one behaviour
MaxCalls == 2       \* social_router calls running at the same time (worker threads)
MaxNow == 2         \* readings of the database clock after the first
MaxStarts == 3      \* social_router calls started in one behaviour

None == "None"

Conns == 1..MaxConns
RunIds == 1..MaxRuns
LobbyConns == 1..MaxLobby
CallIds == 1..MaxCalls

\* ------------------------------------------------------------ fixed tables
\* Rows of the table users, and the rows group_members starts with.
GroupIds == {"g1", "g2"}

UsersTable ==
    { [id |-> 1, username |-> "ann", user_code |-> "A1"],
      [id |-> 2, username |-> "bob", user_code |-> "B2"] }

GroupMembersTable == { <<"g1", 1>>, <<"g1", 2>>, <<"g2", 1>> }

\* The members that created their group (role 'owner').
GroupOwnersTable == { <<"g1", 1>>, <<"g2", 1>> }

\* The tables friendships and friend_requests as the database can have
\* them: as init_db.py declares them (friendships without an id column,
\* friend_requests without responded_at; nothing in the program calls
\* init_tables), or with the columns the statements of social_router name.
Schemas == {"init_db", "queries"}

Usernames == {"ann", "bob"}
UserIds == { u.id : u \in UsersTable }
UserCodes == {"A1", "B2"}

\* Inbound texts of the group ingress loop and of the HTTP endpoint.
WsTexts == {"lets hike si"}

\* What ws.send_text can raise on a connection whose transport is gone: the
\* server stack decides (RuntimeError once the close was seen by the
\* application, WebSocketDisconnect or the transport's ConnectionClosed
\* when the peer went away first).
SendErrors == {"RuntimeError", "WebSocketDisconnect", "ConnectionClosed"}

VARIABLES
    rooms,           \* GroupConnectionManager.rooms: group_id -> ordered dict uid -> websocket
    wsPc,            \* position of each group_ws handler
    wsReq,           \* (group_id, user) each group_ws handler serves
    transport,       \* client side of each websocket: "open" or "closed"
    bc,              \* the broadcast_json call in progress in each handler
    inbox,           \* frames each websocket delivered to its client, in order
    bcHist,          \* finished broadcast_json calls (history)
    group_messages,  \* table group_messages, in insertion order
    seq,             \* last value of group_messages_id_seq
    runs,            \* the run_pipeline calls and their local state
    pydantic,        \* major version of the installed pydantic (1 or 2)
    active_connections, \* ChatConnectionManager.active_connections: username -> websocket
    lobPc,           \* position of each websocket_chat handler
    lobUser,         \* username each websocket_chat handler serves
    lobTransport,    \* client side of each lobby websocket
    lobBc,           \* the lobby broadcast_json call in progress in each handler
    lobText,         \* the text each lobby handler is working on
    busy,            \* the handler inside a synchronous call on the event loop
    fm,              \* a _fuzzy_match_trail call: what its sources answered, what it returned
    schema,          \* which columns the friend tables of the database have
    friendships,     \* table friendships: the rows (user_id, friend_id)
    friend_requests, \* table friend_requests: rows id, from_user_id, to_user_id, status
    reqSeq,          \* last value of friend_requests_id_seq
    calls,           \* the social_router calls in progress or finished, per worker thread
    started,         \* number of social_router calls started so far
    groups,          \* table groups: the ids
    group_members,   \* table group_members: rows group_id, user_id, role
    now,             \* the clock of the database server
    created_at       \* column created_at of group_messages: id -> timestamp

wsVars == <<rooms, wsPc, wsReq, transport, bc, inbox, bcHist>>
dbVars == <<group_messages, seq>>
pipeVars == <<runs, pydantic, fm>>
lobVars == <<active_connections, lobPc, lobUser, lobTransport, lobBc, lobText, busy>>
friendVars == <<schema, friendships, friend_requests, reqSeq>>
groupVars == <<groups, group_members>>
timeVars == <<now, created_at>>
socVars == <<friendVars, calls, started, groupVars, timeVars>>
\* what an INSERT INTO group_messages leaves alone
socKept == <<friendVars, calls, started, groupVars, now>>
vars == <<rooms, wsPc, wsReq, transport, bc, inbox, bcHist, group_messages, seq,
          runs, pydantic, active_connections, lobPc, lobUser, lobTransport,
          lobBc, lobText, busy, fm, schema, friendships, friend_requests,
          reqSeq, calls, started, groups, group_members, now, created_at>>

\* --------------------------------------------------- GroupConnectionManager
Entry(uid, ws) == [uid |-> uid, ws |-> ws]

HasUid(room, uid) == \E i \in 1..Len(room) : room[i].uid = uid

\* rooms.get(group_id); a missing key and an empty dict are both falsy
RoomOf(rms, g) == IF g \in DOMAIN rms THEN rms[g] ELSE <<>>

RegisteredWs(rms, g) == { RoomOf(rms, g)[i].ws : i \in 1..Len(RoomOf(rms, g)) }

\* connect, after websocket.accept(): setdefault, then rooms[group_id][user_id] = websocket
Connect(rms, g, uid, ws) ==
    LET old == RoomOf(rms, g)
        new == IF HasUid(old, uid)
               THEN [i \in 1..Len(old) |->
                        IF old[i].uid = uid THEN Entry(uid, ws) ELSE old[i]]
               ELSE Append(old, Entry(uid, ws))
    IN [x \in DOMAIN rms \cup {g} |-> IF x = g THEN new ELSE rms[x]]

\* A disconnect that leaves the emptied room in the dict.
DisconnectKeepsRoom(rms, g, uid) ==
    IF g \in DOMAIN rms /\ HasUid(rms[g], uid)
    THEN [rms EXCEPT ![g] = SelectSeq(rms[g], LAMBDA e : e.uid # uid)]
    ELSE rms

\* disconnect: delete by key, drop the room when it became empty
Disconnect(rms, g, uid) ==
    IF g \in DOMAIN rms /\ HasUid(rms[g], uid)
    THEN LET rest == SelectSeq(rms[g], LAMBDA e : e.uid # uid)
         IN IF rest = <<>>
            THEN [x \in DOMAIN rms \ {g} |-> rms[x]]
            ELSE [rms EXCEPT ![g] = rest]
    ELSE rms

\* broadcast_json, the trailing loop: for uid in dead: self.disconnect(group_id, uid)
RECURSIVE DisconnectAll(_, _, _)
DisconnectAll(rms, g, dead) ==
    IF dead = <<>> THEN rms
    ELSE DisconnectAll(Disconnect(rms, g, Head(dead)), g, Tail(dead))

\* broadcast_json: list(room.items()), taken before the first await
Snapshot(rms, g) == RoomOf(rms, g)

\* ------------------------------------------------------------ message store
\* A sequence that hands out its current value again.
NextValStuck(s) == s

\* nextval('group_messages_id_seq') of the id SERIAL column
NextVal(s) == s + 1

\* user_id NULL of a row no user authored
NullUser == 0

\* created_at DEFAULT CURRENT_TIMESTAMP (NOW() in the announcement INSERT)
Stamp(stamps, id, t) == (id :> t) @@ stamps

Row(id, g, uid, sender, role, content) ==
    [id |-> id, group_id |-> g, user_id |-> uid, sender |-> sender,
     role |-> role, content |-> content]

\* A message whose id is not the one the INSERT returned.
BuildMsgOwnId(row) ==
    [id |-> 0, group_id |-> row.group_id, sender |-> row.sender,
     role |-> row.role, content |-> row.content]

\* group_ws: the dict built from the RETURNING row
BuildMsg(row) ==
    [id |-> row.id, group_id |-> row.group_id, sender |-> row.sender,
     role |-> row.role, content |-> row.content]

\* A lookup that trusts the username and ignores the user_code.
UserForNameOnly(username, code) ==
    { u \in UsersTable : u.username = username }

\* _get_user_for_ws: the users row with this username and user_code
UserFor(username, code) ==
    { u \in UsersTable : u.username = username /\ u.user_code = code }

IsMember(g, uid) ==
    \E m \in group_members : m.group_id = g /\ m.user_id = uid

UserById(uid) == CHOOSE u \in UsersTable : u.id = uid

\* ------------------------------------------------------------- group_ws
\* A client opens /ws/groups/{g}?username=..&user_code=..: identity and
\* membership are checked, then connect() awaits websocket.accept().
WsOpen(c, g, username, code) ==
    /\ wsPc[c] = "new"
    /\ \A d \in Conns : d < c => wsPc[d] # "new"
    /\ LET us == UserFor(username, code) IN
         IF us = {}
         THEN /\ wsPc' = [wsPc EXCEPT ![c] = "closed4401"]
              /\ transport' = [transport EXCEPT ![c] = "closed"]
              /\ UNCHANGED wsReq
         ELSE LET user == CHOOSE u \in us : TRUE IN
              IF ~IsMember(g, user.id)
              THEN /\ wsPc' = [wsPc EXCEPT ![c] = "closed4403"]
                   /\ transport' = [transport EXCEPT ![c] = "closed"]
                   /\ UNCHANGED wsReq
              ELSE /\ wsPc' = [wsPc EXCEPT ![c] = "accepting"]
                   /\ wsReq' = [wsReq EXCEPT ![c] = [group_id |-> g, uid |-> user.id]]
                   /\ UNCHANGED transport
    /\ UNCHANGED <<rooms, bc, inbox, bcHist>>
    /\ UNCHANGED dbVars
    /\ UNCHANGED <<pipeVars, lobVars, socVars>>

\* websocket.accept() returned: the connection is registered
WsAccept(c) ==
    /\ wsPc[c] = "accepting"
    /\ rooms' = Connect(rooms, wsReq[c].group_id, wsReq[c].uid, c)
    /\ wsPc' = [wsPc EXCEPT ![c] = "recv"]
    /\ UNCHANGED <<wsReq, transport, bc, inbox, bcHist>>
    /\ UNCHANGED dbVars
    /\ UNCHANGED <<pipeVars, lobVars, socVars>>

\* The record of a broadcast_json call that ended (returned or raised).
Finished(c, b, rms, outcome) ==
    [by |-> c, msg |-> b.msg, atCall |-> b.atCall, attempted |-> b.attempted,
     failed |-> b.failed, regAfter |-> RegisteredWs(rms, b.msg.group_id),
     outcome |-> outcome]

\* receive_text() returned a text: INSERT ... RETURNING, build msg, call
\* broadcast_json up to its first await (json.dumps, rooms.get, snapshot).
WsReceive(c, text) ==
    /\ wsPc[c] = "recv"
    /\ transport[c] = "open"
    /\ seq < MaxSeq
    /\ LET g == wsReq[c].group_id
           user == UserById(wsReq[c].uid)
           row == Row(NextVal(seq), g, user.id, user.username, "user", text)
           snap == Snapshot(rooms, g)
           b == [msg |-> BuildMsg(row), todo |-> snap, dead |-> <<>>,
                 atCall |-> RegisteredWs(rooms, g), attempted |-> {}, failed |-> {}]
       IN /\ seq' = NextVal(seq)
          /\ group_messages' = Append(group_messages, row)
          /\ IF snap = <<>>
             THEN /\ bcHist' = bcHist \cup {Finished(c, b, rooms, "returned")}
                  /\ UNCHANGED <<wsPc, bc>>
             ELSE /\ bc' = [bc EXCEPT ![c] = b]
                  /\ wsPc' = [wsPc EXCEPT ![c] = "bcast"]
                  /\ UNCHANGED bcHist
    /\ UNCHANGED <<rooms, wsReq, transport, inbox>>
    /\ created_at' = Stamp(created_at, NextVal(seq), now)
    /\ UNCHANGED <<pipeVars, lobVars, socKept>>

\* receive_text() returned a text and the INSERT raised (connection refused,
\* constraint or server error): the exception is no WebSocketDisconnect, so
\* it leaves group_ws. The sequence value is lost when nextval had run.
WsReceiveInsertFails(c, text) ==
    /\ wsPc[c] = "recv"
    /\ transport[c] = "open"
    /\ seq < MaxSeq
    /\ \E drawn \in BOOLEAN : seq' = IF drawn THEN NextVal(seq) ELSE seq
    /\ wsPc' = [wsPc EXCEPT ![c] = "crashed_persist"]
    /\ transport' = [transport EXCEPT ![c] = "closed"]
    /\ UNCHANGED <<rooms, wsReq, bc, inbox, bcHist, group_messages>>
    /\ UNCHANGED <<pipeVars, lobVars, socVars>>

\* What ws.send_text can do: on an open transport it delivers; on a closed
\* one it raises one of SendErrors or, with servers that ignore writes after
\* the close, returns without delivering ("dropped").
SendOutcomes(tr) == IF tr = "open" THEN {"ok"} ELSE SendErrors \cup {"dropped"}

\* The outcomes after which the send loop goes on: no exception, or the
\* RuntimeError the loop catches.
Continues == {"ok", "dropped", "RuntimeError"}

\* One iteration of broadcast_json's send loop, with the trailing cleanup
\* when it was the last one.
WsSend(c) ==
    /\ wsPc[c] = "bcast"
    /\ LET b == bc[c]
           e == Head(b.todo)
           rest == Tail(b.todo)
           g == wsReq[c].group_id
       IN \E out \in SendOutcomes(transport[e.ws]) :
            LET b1 == [b EXCEPT !.todo = rest,
                                !.attempted = @ \cup {e.ws},
                                !.failed = IF out \in SendErrors THEN @ \cup {e.ws} ELSE @,
                                !.dead = IF out = "RuntimeError" THEN Append(@, e.uid) ELSE @]
            IN
            /\ inbox' = IF out = "ok"
                        THEN [inbox EXCEPT ![e.ws] = Append(@, b.msg)]
                        ELSE inbox
            /\ CASE out \in Continues /\ rest # <<>> ->
                      /\ bc' = [bc EXCEPT ![c] = b1]
                      /\ UNCHANGED <<rooms, wsPc, transport, bcHist>>
                 [] out \in Continues /\ rest = <<>> ->
                      /\ rooms' = DisconnectAll(rooms, g, b1.dead)
                      /\ bcHist' = bcHist \cup {Finished(c, b1, rooms', "returned")}
                      /\ bc' = [bc EXCEPT ![c] = None]
                      /\ wsPc' = [wsPc EXCEPT ![c] = "recv"]
                      /\ UNCHANGED transport
                 [] out = "WebSocketDisconnect" ->
                      \* caught by group_ws: disconnect(group_id, user.id)
                      /\ rooms' = Disconnect(rooms, g, wsReq[c].uid)
                      /\ bcHist' = bcHist \cup {Finished(c, b1, rooms', "raised")}
                      /\ bc' = [bc EXCEPT ![c] = None]
                      /\ wsPc' = [wsPc EXCEPT ![c] = "done"]
                      /\ transport' = [transport EXCEPT ![c] = "closed"]
                 [] out = "ConnectionClosed" ->
                      \* leaves broadcast_json and group_ws
                      /\ bcHist' = bcHist \cup {Finished(c, b1, rooms, "raised")}
                      /\ bc' = [bc EXCEPT ![c] = None]
                      /\ wsPc' = [wsPc EXCEPT ![c] = "crashed_send"]
                      /\ transport' = [transport EXCEPT ![c] = "closed"]
                      /\ UNCHANGED rooms
    /\ UNCHANGED wsReq
    /\ UNCHANGED dbVars
    /\ UNCHANGED <<pipeVars, lobVars, socVars>>

\* The client closes its websocket.
ClientClose(c) ==
    /\ wsPc[c] \in {"recv", "bcast"}
    /\ transport[c] = "open"
    /\ transport' = [transport EXCEPT ![c] = "closed"]
    /\ UNCHANGED <<rooms, wsPc, wsReq, bc, inbox, bcHist>>
    /\ UNCHANGED dbVars
    /\ UNCHANGED <<pipeVars, lobVars, socVars>>

\* receive_text() raises WebSocketDisconnect: disconnect(group_id, user.id)
WsRecvDisconnect(c) ==
    /\ wsPc[c] = "recv"
    /\ transport[c] = "closed"
    /\ rooms' = Disconnect(rooms, wsReq[c].group_id, wsReq[c].uid)
    /\ wsPc' = [wsPc EXCEPT ![c] = "done"]
    /\ UNCHANGED <<wsReq, transport, bc, inbox, bcHist>>
    /\ UNCHANGED dbVars
    /\ UNCHANGED <<pipeVars, lobVars, socVars>>

\* POST /social/groups/{group_id}/messages (create_group_message)
HttpPost(g, uid, text) ==
    /\ seq < MaxSeq
    /\ IsMember(g, uid)
    /\ seq' = NextVal(seq)
    /\ group_messages' =
          Append(group_messages,
                 Row(NextVal(seq), g, uid, UserById(uid).username, "user", text))
    /\ UNCHANGED wsVars
    /\ created_at' = Stamp(created_at, NextVal(seq), now)
    /\ UNCHANGED <<pipeVars, lobVars, socKept>>

\* ===================================================== AutoPlannerService
\* Texts are sequences of characters, so that lower() and the substring
\* test of the gate are computed as the code computes them.
Upper == <<"A","B","C","D","E","F","G","H","I","J","K","L","M",
           "N","O","P","Q","R","S","T","U","V","W","X","Y","Z">>
LowerCase == <<"a","b","c","d","e","f","g","h","i","j","k","l","m",
               "n","o","p","q","r","s","t","u","v","w","x","y","z">>

\* str.lower() on one character
Lower(ch) ==
    IF \E i \in 1..Len(Upper) : Upper[i] = ch
    THEN LowerCase[CHOOSE i \in 1..Len(Upper) : Upper[i] = ch]
    ELSE ch

LowerText(s) == [i \in 1..Len(s) |-> Lower(s[i])]

\* Python's `sub in s`
Contains(s, sub) ==
    \E i \in 1..(Len(s) - Len(sub) + 1) : SubSeq(s, i, i + Len(sub) - 1) = sub

\* run_pipeline: the list `triggers`. A character outside ASCII is written
\* as its code point: u53bb, u722c u5c71, u8def u7ebf, u7ea6.
Triggers ==
    { <<"g","o"," ","t","o">>, <<"h","i","k","e">>, <<"t","r","a","i","l">>,
      <<"p","l","a","n">>, <<"w","e","e","k","e","n","d">>,
      <<"s","a","t","u","r","d","a","y">>, <<"s","u","n","d","a","y">>,
      <<"t","r","i","p">>, <<"j","o","i","n">>, <<"u53bb">>, <<"u722c","u5c71">>,
      <<"u8def","u7ebf">>, <<"u7ea6">> }

\* A gate that iterates over the characters of the phrases instead of the
\* phrases (triggers given as one string instead of a list).
GatePassesAnyChar(text) ==
    \E k \in Triggers : \E j \in 1..Len(k) : Contains(LowerText(text), <<k[j]>>)

\* run_pipeline: any(k in user_message.lower() for k in triggers)
GatePasses(text) == \E k \in Triggers : Contains(LowerText(text), k)

\* Inbound texts handed to run_pipeline:
\* "Hike Si", U+53BB " Si", "nice day", "OK"
PipeTexts ==
    { <<"H","i","k","e"," ","S","i">>, <<"u53bb"," ","S","i">>,
      <<"n","i","c","e"," ","d","a","y">>, <<"O","K">> }

PyNone == "PyNone"      \* Python's None / JSON null

\* What the intent-extraction backend call can produce: an exception
\* (API error, timeout), a content that is no JSON, a JSON value that is no
\* object, or a JSON object (the keys present are the record's domain; JSON
\* true, false and null are written "true", "false" and PyNone).
ExtractResponses ==
    << [kind |-> "error"], [kind |-> "notjson"], [kind |-> "array"],
      [kind |-> "object",
       obj |-> [is_planning_trip |-> "true", trail_name_raw |-> "Mailbox",
                target_date_str |-> "2025-06-07"]],
      [kind |-> "object",
       obj |-> [is_planning_trip |-> "true", trail_name_raw |-> "Mailbox",
                target_date_str |-> PyNone]],
      [kind |-> "object",
       obj |-> [is_planning_trip |-> "true", trail_name_raw |-> "Mailbox",
                target_date_str |-> "next sat"]],
      [kind |-> "object",
       obj |-> [is_planning_trip |-> "true", trail_name_raw |-> "Mailbox"]],
      [kind |-> "object",
       obj |-> [is_planning_trip |-> "false", trail_name_raw |-> "Mailbox",
                target_date_str |-> "2025-06-07"]],
      [kind |-> "object",
       obj |-> [is_planning_trip |-> "false", trail_name_raw |-> PyNone,
                target_date_str |-> PyNone]],
      [kind |-> "object",
       obj |-> [is_planning_trip |-> "true", trail_name_raw |-> PyNone,
                target_date_str |-> PyNone]],
      [kind |-> "object",
       obj |-> [is_planning_trip |-> "true", trail_name_raw |-> "",
                target_date_str |-> PyNone]],
      [kind |-> "object",
       obj |-> [is_planning_trip |-> "true", target_date_str |-> PyNone]],
      [kind |-> "object",
       obj |-> [trail_name_raw |-> "Mailbox", target_date_str |-> "2025-06-07"]],
      [kind |-> "object",
       obj |-> [is_planning_trip |-> PyNone, trail_name_raw |-> "Mailbox",
                target_date_str |-> "2025-06-07"]]  >>

Extraction(planning, trail, date) ==
    [is_planning_trip |-> planning, trail_name_raw |-> trail, target_date_str |-> date]

\* ExtractionSchema(**kw): [ok, value]; ok = FALSE is a ValidationError.
\*   is_planning_trip: bool                     required
\*   trail_name_raw:   Optional[str] = None     default None
\*   target_date_str:  Optional[str] = Field(description=...)
\*       no default is given: pydantic 1 makes an Optional field default to
\*       None, pydantic 2 makes a field without a default required.
ExtractionSchema(kw, major) ==
    LET has(k) == k \in DOMAIN kw IN
    IF ~has("is_planning_trip") \/ kw.is_planning_trip \notin {"true", "false"}
    THEN [ok |-> FALSE]
    ELSE IF ~has("target_date_str") /\ major = 2
    THEN [ok |-> FALSE]
    ELSE [ok |-> TRUE,
          value |-> Extraction(kw.is_planning_trip = "true",
                               IF has("trail_name_raw") THEN kw.trail_name_raw ELSE PyNone,
                               IF has("target_date_str") THEN kw.target_date_str ELSE PyNone)]

\* _extract_intent, the except branch: ExtractionSchema(is_planning_trip=False)
DefaultExtraction(major) == ExtractionSchema([is_planning_trip |-> "false"], major)

\* _extract_intent: [raised, value]. Everything the try block raises is
\* caught; what the except branch raises leaves the method.
ExtractIntent(resp, major) ==
    LET parsed == IF resp.kind = "object"
                  THEN ExtractionSchema(resp.obj, major)
                  ELSE [ok |-> FALSE]
    IN IF parsed.ok THEN [raised |-> FALSE, value |-> parsed.value]
       ELSE IF DefaultExtraction(major).ok
            THEN [raised |-> FALSE, value |-> DefaultExtraction(major).value]
            ELSE [raised |-> TRUE]

\* Python truthiness of an Optional[str]
Truthy(v) == v # PyNone /\ v # ""

\* run_pipeline: if not extraction.is_planning_trip or not extraction.trail_name_raw: return
IntentAborts(ext) == ~ext.is_planning_trip \/ ~Truthy(ext.trail_name_raw)

\* _fuzzy_match_trail returning None
NoTrail == [name |-> "", length_km |-> "", elevation_gain_m |-> "", source |-> "none"]

IdleRun ==
    [pc |-> "idle", chat_id |-> None, text |-> <<>>,
     ext |-> Extraction(FALSE, PyNone, PyNone), trail |-> NoTrail, weather |-> "",
     llm_calls |-> 0, match_calls |-> 0, appended |-> 0,
     synth |-> "none", payload |-> [t |-> "dict", v |-> <<>>],
     insert_calls |-> 0, insert_errors |-> 0]

\* run_pipeline(chat_id, user_message) is called: the gate, then the
\* intent-extraction backend call is issued.
StartPipeline(r, g, text) ==
    /\ runs[r].pc = "idle"
    /\ \A q \in RunIds : q < r => runs[q].pc # "idle"
    /\ runs' = [runs EXCEPT ![r] =
          IF GatePasses(text)
          THEN [@ EXCEPT !.pc = "extract", !.chat_id = g, !.text = text,
                         !.llm_calls = @ + 1]
          ELSE [@ EXCEPT !.pc = "aborted_gate", !.chat_id = g, !.text = text]]
    /\ UNCHANGED <<wsVars, dbVars, pydantic, lobVars, fm, socVars>>


\* ------------------------------------------------------- entity catalog
\* MOCK_TRAILS_DB (name, length_km, elevation_gain_m; decimals kept as text)
MockTrails ==
    { [name |-> "Mailbox Peak", length_km |-> "15.1", elevation_gain_m |-> "1219", source |-> "mock"],
      [name |-> "Rattlesnake Ledge", length_km |-> "6.4", elevation_gain_m |-> "353", source |-> "mock"],
      [name |-> "Mount Rainier (Skyline Trail)", length_km |-> "9.0", elevation_gain_m |-> "518", source |-> "mock"],
      [name |-> "Mount Si", length_km |-> "12.0", elevation_gain_m |-> "960", source |-> "mock"],
      [name |-> "Lake Serene", length_km |-> "13.2", elevation_gain_m |-> "610", source |-> "mock"] }

\* Rows the query self.db.query(Trail).all() can return when it returns any.
DbTrails ==
    { [name |-> "Mailbox Peak", length_km |-> "15.0", elevation_gain_m |-> "1200", source |-> "db"],
      [name |-> "Mount Si", length_km |-> "12.9", elevation_gain_m |-> "960", source |-> "db"] }

\* What the primary source answers: the query raised, no row, or rows.
PrimaryOutcomes == {"error", "empty", "rows"}

\* Scores process.extractOne gives its best choice (0..100): the ends and
\* the values around the two thresholds.
Scores == {0, 49, 50, 51, 69, 70, 71, 100}

\* Months datetime.now() can fall in, one or two per weather branch.
NowMonths == {1, 4, 6, 10, 12}

PrimaryThreshold == 70
FallbackThreshold == 50

\* A first attempt that takes the best match whatever the query answered.
MatchPrimaryAnyway(primary, pbest, pscore) ==
    IF pscore > PrimaryThreshold THEN pbest ELSE NoTrail

\* _fuzzy_match_trail, first attempt: the database rows. pbest/pscore is
\* what process.extractOne returns on their names. NoTrail: go on to the
\* second attempt.
MatchPrimary(primary, pbest, pscore) ==
    IF primary = "rows" /\ pscore > PrimaryThreshold THEN pbest ELSE NoTrail

\* _fuzzy_match_trail, second attempt: MOCK_TRAILS_DB. mbest/mscore is what
\* process.extractOne returns on the mock names. NoTrail: return None.
MatchFallback(mbest, mscore) ==
    IF mscore > FallbackThreshold THEN mbest ELSE NoTrail

\* run_pipeline: if not trail_record: return
GroundingAborts(trail) == trail = NoTrail

\* Every score process.extractOne can give.
AllScores == 0..100

NoScore == -1

\* No _fuzzy_match_trail call yet.
IdleMatch ==
    [pc |-> "idle", primary |-> "none", pbest |-> NoTrail, pscore |-> NoScore,
     presult |-> NoTrail, mbest |-> NoTrail, mscore |-> NoScore,
     mresult |-> NoTrail, result |-> NoTrail, aborts |-> FALSE]

\* _fuzzy_match_trail(raw_name), first attempt: the query answers `primary`
\* and, on rows, extractOne answers (pbest, pscore). An accepted match is
\* returned to run_pipeline; otherwise the second attempt follows.
FuzzyPrimary(primary, pbest, pscore) ==
    /\ fm.pc = "idle"
    /\ LET rows == primary = "rows"
           t == MatchPrimary(primary, pbest, pscore)
           seen == [fm EXCEPT !.primary = primary,
                              !.pbest = IF rows THEN pbest ELSE NoTrail,
                              !.pscore = IF rows THEN pscore ELSE NoScore,
                              !.presult = t]
       IN fm' = IF t = NoTrail
                THEN [seen EXCEPT !.pc = "fallback"]
                ELSE [seen EXCEPT !.pc = "returned", !.result = t,
                                  !.aborts = GroundingAborts(t)]
    /\ UNCHANGED <<wsVars, dbVars, runs, pydantic, lobVars, socVars>>

\* _fuzzy_match_trail, second attempt: extractOne on the mock names answers
\* (mbest, mscore); the match or None is returned to run_pipeline.
FuzzyFallback(mbest, mscore) ==
    /\ fm.pc = "fallback"
    /\ LET t == MatchFallback(mbest, mscore) IN
       fm' = [fm EXCEPT !.pc = "returned", !.mbest = mbest, !.mscore = mscore,
                        !.mresult = t, !.result = t,
                        !.aborts = GroundingAborts(t)]
    /\ UNCHANGED <<wsVars, dbVars, runs, pydantic, lobVars, socVars>>

\* datetime.strptime(s, "%Y-%m-%d").month on the dates the backend
\* answers here; 0 stands for the ValueError of a text in another form.
StrptimeMonth(s) ==
    CASE s = "2025-06-07" -> 6
      [] OTHER -> 0

\* run_pipeline: the weather text chosen from the month
WeatherInfo(month) ==
    IF month \in {11, 12, 1, 2, 3} THEN "Cold, 2C, Chance of Snow/Rain"
    ELSE IF month \in {6, 7, 8, 9} THEN "Sunny, 22C, Clear Skies"
    ELSE "Overcast, 12C, Light Rain likely"

\* ------------------------------------------------------------ synthesis
\* Python values, tagged with their type. A str is a sequence of pieces: a
\* run of plain ASCII text, or one character that JSON escapes (the quote,
\* the backslash, a character outside ASCII written as its code point). A
\* dict is the sequence of its items in insertion order.
PyStr(pieces) == [t |-> "str", v |-> pieces]
PyList(items) == [t |-> "list", v |-> items]
Item(key, val) == [k |-> key, v |-> val]
PyDict(items) == [t |-> "dict", v |-> items]

DictHas(d, key) == \E i \in 1..Len(d.v) : d.v[i].k = key

\* d.get(key, default)
DictGet(d, key, default) ==
    IF DictHas(d, key)
    THEN d.v[CHOOSE i \in 1..Len(d.v) : d.v[i].k = key].v
    ELSE default

\* A fallback that says nothing about the trail.
FallbackPayloadBare(trail) ==
    PyDict(<< Item("title", PyStr(<<"Hike">>)),
              Item("summary", PyStr(<<"Let's go hiking!">>)),
              Item("stats", PyDict(<<>>)),
              Item("weather_warning", PyStr(<<"Check forecast.">>)),
              Item("gear_required",
                   PyList(<< PyStr(<<"Water">>), PyStr(<<"Boots">>) >>)),
              Item("fun_fact", PyStr(<<"Hiking is good for you!">>)) >>)

\* _generate_final_json, the except branch
FallbackPayload(trail) ==
    PyDict(<< Item("title", PyStr(<<"Hike to ", trail.name>>)),
              Item("summary", PyStr(<<"Let's go hiking!">>)),
              Item("stats",
                   PyDict(<< Item("dist", PyStr(<<trail.length_km, "km">>)),
                             Item("elev", PyStr(<<trail.elevation_gain_m, "m">>)) >>)),
              Item("weather_warning", PyStr(<<"Check forecast.">>)),
              Item("gear_required",
                   PyList(<< PyStr(<<"Water">>), PyStr(<<"Boots">>) >>)),
              Item("fun_fact", PyStr(<<"Hiking is good for you!">>)) >>)

\* What the synthesis backend call can produce: an exception (error,
\* timeout), a content that is no JSON (cut off), or a JSON object
\* (response_format json_object): one with every field of the prompt's
\* format (U+1F97E and a quote in its title), one without title, one with
\* nothing but a title.
SynthResponses ==
    << [kind |-> "error"], [kind |-> "notjson"],
      [kind |-> "json",
       value |->
         PyDict(<< Item("title", PyStr(<<"u1f97e", " Mailbox ", "\"", "Peak", "\"">>)),
                   Item("summary", PyStr(<<"Steep and scenic.">>)),
                   Item("stats",
                        PyDict(<< Item("dist", PyStr(<<"15.1 km">>)),
                                  Item("elev", PyStr(<<"1219 m">>)) >>)),
                   Item("weather_warning", PyStr(<<"Clear skies.">>)),
                   Item("gear_required",
                        PyList(<< PyStr(<<"Sunscreen">>), PyStr(<<"Water">>) >>)),
                   Item("fun_fact", PyStr(<<"There is a mailbox at the top.">>)) >>)],
      [kind |-> "json",
       value |-> PyDict(<< Item("summary", PyStr(<<"No headline.">>)) >>)],
      [kind |-> "json",
       value |-> PyDict(<< Item("title", PyStr(<<"Mailbox Saturday">>)) >>)]  >>

\* _generate_final_json: json.loads of the content, or the fallback
GenerateFinalJson(trail, resp) ==
    IF resp.kind = "json" THEN resp.value ELSE FallbackPayload(trail)

\* ------------------------------------------------------------------ json
\* The characters json.dumps (ensure_ascii) writes as escapes, and what it
\* writes for them.
Escapes ==
    << [raw |-> "\"", esc |-> "\\\""],
       [raw |-> "\\", esc |-> "\\\\"],
       [raw |-> "u1f97e", esc |-> "\\ud83e\\udd7e"] >>

EscapePiece(p) ==
    IF \E i \in 1..Len(Escapes) : Escapes[i].raw = p
    THEN Escapes[CHOOSE i \in 1..Len(Escapes) : Escapes[i].raw = p].esc
    ELSE p

UnescapePiece(p) ==
    IF \E i \in 1..Len(Escapes) : Escapes[i].esc = p
    THEN Escapes[CHOOSE i \in 1..Len(Escapes) : Escapes[i].esc = p].raw
    ELSE p

\* json.dumps(v): the JSON text, as the tree of its string literals (their
\* characters escaped), arrays and objects (members in the dict's order).
RECURSIVE JsonDumps(_)
JsonDumps(v) ==
    CASE v.t = "str" ->
           [j |-> "string", v |-> [i \in 1..Len(v.v) |-> EscapePiece(v.v[i])]]
      [] v.t = "list" ->
           [j |-> "array", v |-> [i \in 1..Len(v.v) |-> JsonDumps(v.v[i])]]
      [] v.t = "dict" ->
           [j |-> "object",
            v |-> [i \in 1..Len(v.v) |->
                     [k |-> EscapePiece(v.v[i].k), v |-> JsonDumps(v.v[i].v)]]]

\* The value a JSON text denotes.
RECURSIVE JsonValue(_)
JsonValue(x) ==
    CASE x.j = "string" ->
           PyStr([i \in 1..Len(x.v) |-> UnescapePiece(x.v[i])])
      [] x.j = "array" ->
           PyList([i \in 1..Len(x.v) |-> JsonValue(x.v[i])])
      [] x.j = "object" ->
           PyDict([i \in 1..Len(x.v) |->
                     Item(UnescapePiece(x.v[i].k), JsonValue(x.v[i].v))])

\* A content that is no JSON text.
PlainText == [j |-> "invalid", v |-> <<>>]

\* json.loads(text): [ok, value]; ok = FALSE is a JSONDecodeError.
JsonLoads(text) ==
    IF text.j = "invalid" THEN [ok |-> FALSE, value |-> PyDict(<<>>)]
    ELSE [ok |-> TRUE, value |-> JsonValue(text)]

\* ------------------------------------------------------------- consumer
\* render_rich_message(msg): whether the trip card is rendered and, for
\* the card, the title, stats and gear it shows.
RenderRichMessage(msg) ==
    LET plain == [is_announcement |-> FALSE, title |-> PyStr(<<>>),
                  stats |-> PyDict(<<>>), gear |-> PyList(<<>>)]
    IN IF msg.sender = "HikeBot" \/ msg.role = "assistant"
       THEN LET parsed == JsonLoads(msg.content) IN
            IF parsed.ok /\ parsed.value.t = "dict" /\ DictHas(parsed.value, "title")
            THEN [is_announcement |-> TRUE,
                  title |-> DictGet(parsed.value, "title", PyStr(<<"Trip Plan">>)),
                  stats |-> DictGet(parsed.value, "stats", PyDict(<<>>)),
                  gear |-> DictGet(parsed.value, "gear_required", PyList(<<>>))]
            ELSE plain
       ELSE plain

\* _post_announcement_to_db: the row of the INSERT
AnnouncementRow(id, chat_id, content_json) ==
    Row(id, chat_id, NullUser, "HikeBot", "assistant", JsonDumps(content_json))

\* run_pipeline returned: its locals are gone; the matched trail is kept as
\* history. n is the number of rows the run appended.
Returned(run, pc, n) ==
    [run EXCEPT !.pc = pc, !.ext = IdleRun.ext, !.weather = IdleRun.weather,
                !.appended = n]

\* The intent-extraction call returned or raised.
ExtractReturns(r, resp) ==
    /\ runs[r].pc = "extract"
    /\ LET res == ExtractIntent(resp, pydantic) IN
       runs' = [runs EXCEPT ![r] =
          IF res.raised THEN [@ EXCEPT !.pc = "raised_intent"]
          ELSE IF IntentAborts(res.value)
               THEN [@ EXCEPT !.pc = "aborted_intent", !.ext = res.value]
               ELSE [@ EXCEPT !.pc = "ground", !.ext = res.value]]
    /\ UNCHANGED <<wsVars, dbVars, pydantic, lobVars, fm, socVars>>

\* _fuzzy_match_trail is called: the query on the trails table and the
\* match on its rows.
GroundPrimary(r, primary, pbest, pscore) ==
    /\ runs[r].pc = "ground"
    /\ LET trail == MatchPrimary(primary, pbest, pscore) IN
       runs' = [runs EXCEPT ![r] =
            IF trail = NoTrail
            THEN [@ EXCEPT !.pc = "ground_mock", !.match_calls = @ + 1]
            ELSE [@ EXCEPT !.pc = "enrich", !.match_calls = @ + 1, !.trail = trail]]
    /\ UNCHANGED <<wsVars, dbVars, pydantic, lobVars, fm, socVars>>

\* _fuzzy_match_trail goes on with the mock trails; run_pipeline returns
\* when it gets None.
GroundFallback(r, mbest, mscore) ==
    /\ runs[r].pc = "ground_mock"
    /\ LET trail == MatchFallback(mbest, mscore) IN
       runs' = [runs EXCEPT ![r] =
            IF GroundingAborts(trail)
            THEN [@ EXCEPT !.pc = "aborted_ground"]
            ELSE [@ EXCEPT !.pc = "enrich", !.trail = trail]]
    /\ UNCHANGED <<wsVars, dbVars, pydantic, lobVars, fm, socVars>>

\* The date is parsed, the weather text chosen, and the synthesis backend
\* call is issued.
Enrich(r, nowMonth) ==
    /\ runs[r].pc = "enrich"
    /\ LET date == runs[r].ext.target_date_str
           month == IF Truthy(date) THEN StrptimeMonth(date) ELSE nowMonth
       IN runs' = [runs EXCEPT ![r] =
            IF month = 0
            THEN [@ EXCEPT !.pc = "raised_enrich"]
            ELSE [@ EXCEPT !.pc = "synth", !.llm_calls = @ + 1,
                           !.weather = WeatherInfo(month)]]
    /\ UNCHANGED <<wsVars, dbVars, pydantic, lobVars, fm, socVars>>

\* A commit that tries the INSERT a second time when the first one raised.
SynthReturnsRetry(r, resp, inserted) ==
    /\ runs[r].pc = "synth"
    /\ LET payload == GenerateFinalJson(runs[r].trail, resp)
           seen == [runs[r] EXCEPT
                      !.synth = IF resp.kind = "json" THEN "answered" ELSE "failed",
                      !.payload = payload,
                      !.insert_calls = IF inserted THEN @ + 1 ELSE @ + 2,
                      !.insert_errors = IF inserted THEN @ ELSE @ + 1]
       IN /\ seq' = NextVal(seq)
          /\ group_messages' =
                Append(group_messages,
                       AnnouncementRow(NextVal(seq), runs[r].chat_id, payload))
          /\ runs' = [runs EXCEPT ![r] = Returned(seen, "done", 1)]
    /\ created_at' = Stamp(created_at, NextVal(seq), now)
    /\ UNCHANGED <<wsVars, pydantic, lobVars, fm, socKept>>

\* The synthesis call returned or raised; then _post_announcement_to_db:
\* the INSERT succeeds, or raises and is logged. Kept as history: whether
\* the backend answered with JSON (synth), the payload handed to the commit,
\* the number of execute() calls and of those that raised.
SynthReturns(r, resp, inserted) ==
    /\ runs[r].pc = "synth"
    /\ LET payload == GenerateFinalJson(runs[r].trail, resp)
           seen == [runs[r] EXCEPT
                      !.synth = IF resp.kind = "json" THEN "answered" ELSE "failed",
                      !.payload = payload,
                      !.insert_calls = @ + 1,
                      !.insert_errors = IF inserted THEN @ ELSE @ + 1]
       IN
       IF inserted
       THEN /\ seq' = NextVal(seq)
            /\ group_messages' =
                  Append(group_messages,
                         AnnouncementRow(NextVal(seq), runs[r].chat_id, payload))
            /\ created_at' = Stamp(created_at, NextVal(seq), now)
            /\ runs' = [runs EXCEPT ![r] = Returned(seen, "done", 1)]
       ELSE /\ \E drawn \in BOOLEAN : seq' = IF drawn THEN NextVal(seq) ELSE seq
            /\ UNCHANGED <<group_messages, created_at>>
            /\ runs' = [runs EXCEPT ![r] = Returned(seen, "done", 0)]
    /\ UNCHANGED <<wsVars, pydantic, lobVars, fm, socKept>>

MountSi == CHOOSE t \in MockTrails : t.name = "Mount Si"

\* A commit that skips the INSERT when the room already holds an assistant
\* message with the same content.
PostAnnouncementOnce(g, content_json) ==
    /\ seq < MaxSeq
    /\ \A k \in 1..Len(group_messages) :
          ~ /\ group_messages[k].role = "assistant"
            /\ group_messages[k].group_id = g
            /\ group_messages[k].content = JsonDumps(content_json)
    /\ seq' = NextVal(seq)
    /\ group_messages' =
          Append(group_messages, AnnouncementRow(NextVal(seq), g, content_json))
    /\ created_at' = Stamp(created_at, NextVal(seq), now)
    /\ UNCHANGED <<wsVars, pipeVars, lobVars, socKept>>

\* _post_announcement_to_db(chat_id, content_json) of a run that reached
\* Commit, seen from the group channel.
PostAnnouncement(g, content_json) ==
    /\ seq < MaxSeq
    /\ seq' = NextVal(seq)
    /\ group_messages' =
          Append(group_messages, AnnouncementRow(NextVal(seq), g, content_json))
    /\ created_at' = Stamp(created_at, NextVal(seq), now)
    /\ UNCHANGED <<wsVars, pipeVars, lobVars, socKept>>

\* The same call when the INSERT raised: the exception is logged, nothing is
\* stored; the sequence value is lost when nextval had run.
PostAnnouncementFails(g) ==
    /\ seq < MaxSeq
    /\ \E drawn \in BOOLEAN : seq' = IF drawn THEN NextVal(seq) ELSE seq
    /\ UNCHANGED group_messages
    /\ UNCHANGED <<wsVars, pipeVars, lobVars, socVars>>


\* ============================================================ the lobby
\* ChatConnectionManager and websocket_chat (/ws/chat/{username}).

\* handle_chat: the keyword lists of its branches
RouteWords ==
    { <<"t","r","a","i","l">>, <<"r","o","u","t","e">>,
      <<"h","i","k","e">>,
      <<"w","h","e","r","e"," ","s","h","o","u","l","d"," ","w","e"," ","g","o">>,
      <<"u53bb","u54ea">>, <<"u8def","u7ebf">>, <<"u54ea","u6761">> }
GearWords ==
    { <<"g","e","a","r">>, <<"p","a","c","k">>,
      <<"b","r","i","n","g">>, <<"u80cc","u4ec0","u4e48">>,
      <<"u5e26","u4ec0","u4e48">>, <<"u88c5","u5907">> }
WeatherWords ==
    { <<"w","e","a","t","h","e","r">>,
      <<"f","o","r","e","c","a","s","t">>, <<"u4e0b","u96e8">>,
      <<"u96f7","u7535">>, <<"u98ce","u5927">> }

AnyIn(words, s) == \E w \in words : Contains(s, w)

\* handle_chat(ChatRequest(user_message=text)): [raised, reply]. The gear
\* branch reads req.difficulty, which GearRequest does not have: it raises.
\* (text.strip() is the identity on the texts used here.)
HandleChat(text) ==
    LET lower == LowerText(text) IN
    IF text = <<>> THEN [raised |-> FALSE, reply |-> "didnt_catch"]
    ELSE IF AnyIn(RouteWords, lower) THEN [raised |-> FALSE, reply |-> "routes"]
    ELSE IF AnyIn(GearWords, lower) THEN [raised |-> TRUE, reply |-> ""]
    ELSE IF AnyIn(WeatherWords, lower) THEN [raised |-> FALSE, reply |-> "weather_hint"]
    ELSE [raised |-> FALSE, reply |-> "intro"]

\* Inbound texts of the lobby: "Hike?", "gear", "hi"
LobbyTexts == { <<"H","i","k","e","?">>, <<"g","e","a","r">>, <<"h","i">> }

LobbyNames == {"ann", "bob"}

\* ChatConnectionManager.broadcast_json: list(self.active_connections.values())
LobbySnapshot(ac) == [i \in 1..Len(ac) |-> ac[i].ws]

\* ChatConnectionManager.connect, after accept(): active_connections[username] = websocket
LobbyConnect(ac, name, ws) ==
    IF \E i \in 1..Len(ac) : ac[i].name = name
    THEN [i \in 1..Len(ac) |-> IF ac[i].name = name THEN [name |-> name, ws |-> ws] ELSE ac[i]]
    ELSE Append(ac, [name |-> name, ws |-> ws])

\* ChatConnectionManager.disconnect: active_connections.pop(username, None)
LobbyDisconnect(ac, name) == SelectSeq(ac, LAMBDA e : e.name # name)

\* The event loop runs one handler at a time: a handler inside a
\* synchronous call (busy names it) keeps every other handler waiting.
NoHandler == 0
LoopFree == busy = NoHandler

\* What a handler does when the broadcast of a `kind` message has returned.
AfterBroadcast(c, kind) ==
    CASE kind = "user" -> /\ lobPc' = [lobPc EXCEPT ![c] = "bot"]
                          /\ busy' = c
      [] kind = "leave" -> /\ lobPc' = [lobPc EXCEPT ![c] = "done"]
                           /\ UNCHANGED busy
      [] OTHER -> /\ lobPc' = [lobPc EXCEPT ![c] = "recv"]
                  /\ UNCHANGED busy

\* broadcast_json(msg) is called: the snapshot is taken; with no connection
\* it returns at once.
StartBroadcast(c, kind, ac) ==
    IF LobbySnapshot(ac) = <<>>
    THEN /\ lobBc' = [lobBc EXCEPT ![c] = None]
         /\ AfterBroadcast(c, kind)
    ELSE /\ lobBc' = [lobBc EXCEPT ![c] = [kind |-> kind, todo |-> LobbySnapshot(ac)]]
         /\ lobPc' = [lobPc EXCEPT ![c] = "bcast"]
         /\ UNCHANGED busy

\* /ws/chat/{username} is opened: connect() awaits websocket.accept()
LobbyOpen(c, name) ==
    /\ LoopFree
    /\ lobPc[c] = "new"
    /\ \A d \in LobbyConns : d < c => lobPc[d] # "new"
    /\ lobPc' = [lobPc EXCEPT ![c] = "accepting"]
    /\ lobUser' = [lobUser EXCEPT ![c] = name]
    /\ UNCHANGED <<active_connections, lobTransport, lobBc, lobText, busy>>
    /\ UNCHANGED <<wsVars, dbVars, pipeVars, socVars>>

\* accept() returned: register, then broadcast the join message
LobbyAccept(c) ==
    /\ LoopFree
    /\ lobPc[c] = "accepting"
    /\ active_connections' = LobbyConnect(active_connections, lobUser[c], c)
    /\ StartBroadcast(c, "join", active_connections')
    /\ UNCHANGED <<lobUser, lobTransport, lobText>>
    /\ UNCHANGED <<wsVars, dbVars, pipeVars, socVars>>

\* receive_text() returned a text: broadcast the user message
LobbyReceive(c, text) ==
    /\ LoopFree
    /\ lobPc[c] = "recv"
    /\ lobTransport[c] = "open"
    /\ lobText' = [lobText EXCEPT ![c] = text]
    /\ StartBroadcast(c, "user", active_connections)
    /\ UNCHANGED <<active_connections, lobUser, lobTransport>>
    /\ UNCHANGED <<wsVars, dbVars, pipeVars, socVars>>

\* One iteration of the lobby broadcast loop. RuntimeError is skipped; any
\* other exception leaves broadcast_json: inside the bot try block it is
\* caught and the error message is broadcast, a WebSocketDisconnect
\* elsewhere in the loop body is the disconnect path, anything else ends
\* the handler.
LobbySend(c) ==
    /\ LoopFree
    /\ lobPc[c] = "bcast"
    /\ LET b == lobBc[c]
           t == Head(b.todo)
           rest == Tail(b.todo)
       IN \E out \in SendOutcomes(lobTransport[t]) :
            CASE out \in Continues /\ rest # <<>> ->
                    /\ lobBc' = [lobBc EXCEPT ![c].todo = rest]
                    /\ UNCHANGED <<lobPc, busy, active_connections, lobTransport>>
              [] out \in Continues /\ rest = <<>> ->
                    /\ lobBc' = [lobBc EXCEPT ![c] = None]
                    /\ AfterBroadcast(c, b.kind)
                    /\ UNCHANGED <<active_connections, lobTransport>>
              [] out \in {"WebSocketDisconnect", "ConnectionClosed"} /\ b.kind = "bot" ->
                    /\ StartBroadcast(c, "error", active_connections)
                    /\ UNCHANGED <<active_connections, lobTransport>>
              [] out = "WebSocketDisconnect" /\ b.kind \in {"join", "user", "error"} ->
                    /\ active_connections' = LobbyDisconnect(active_connections, lobUser[c])
                    /\ StartBroadcast(c, "leave", active_connections')
                    /\ UNCHANGED lobTransport
              [] OTHER ->
                    /\ lobBc' = [lobBc EXCEPT ![c] = None]
                    /\ lobPc' = [lobPc EXCEPT ![c] = "crashed"]
                    /\ lobTransport' = [lobTransport EXCEPT ![c] = "closed"]
                    /\ UNCHANGED <<busy, active_connections>>
    /\ UNCHANGED <<lobUser, lobText>>
    /\ UNCHANGED <<wsVars, dbVars, pipeVars, socVars>>

\* handle_chat returned or raised: broadcast the bot or the error message
LobbyBotReturns(c) ==
    /\ busy = c
    /\ lobPc[c] = "bot"
    /\ LET res == HandleChat(lobText[c]) IN
       /\ lobBc' = [lobBc EXCEPT ![c] =
              IF LobbySnapshot(active_connections) = <<>> THEN None
              ELSE [kind |-> IF res.raised THEN "error" ELSE "bot",
                    todo |-> LobbySnapshot(active_connections)]]
       /\ lobPc' = [lobPc EXCEPT ![c] =
              IF LobbySnapshot(active_connections) = <<>> THEN "recv" ELSE "bcast"]
    /\ busy' = NoHandler
    /\ UNCHANGED <<active_connections, lobUser, lobTransport, lobText>>
    /\ UNCHANGED <<wsVars, dbVars, pipeVars, socVars>>

\* The client closes its lobby websocket.
LobbyClientClose(c) ==
    /\ lobPc[c] \in {"recv", "bcast", "bot"}
    /\ lobTransport[c] = "open"
    /\ lobTransport' = [lobTransport EXCEPT ![c] = "closed"]
    /\ UNCHANGED <<active_connections, lobPc, lobUser, lobBc, lobText, busy>>
    /\ UNCHANGED <<wsVars, dbVars, pipeVars, socVars>>

\* receive_text() raises WebSocketDisconnect: disconnect(username), then
\* broadcast the leave message
LobbyRecvDisconnect(c) ==
    /\ LoopFree
    /\ lobPc[c] = "recv"
    /\ lobTransport[c] = "closed"
    /\ active_connections' = LobbyDisconnect(active_connections, lobUser[c])
    /\ StartBroadcast(c, "leave", active_connections')
    /\ UNCHANGED <<lobUser, lobTransport, lobText>>
    /\ UNCHANGED <<wsVars, dbVars, pipeVars, socVars>>

\* ------------------------------------------------------------------- Init
\* ============================================================ social_router
\* The endpoints are plain `def` functions: the framework runs each call in
\* a worker thread, and pg_db opens a connection and commits per statement,
\* so calls interleave between their statements.

\* friend_code values of FriendAddRequest: those of the users and an unknown one
FriendCodes == UserCodes \cup {"Z9"}

\* request_id values of FriendAcceptRequest
RequestIds == 1..MaxStarts

NoUser == 0
NoRequest == 0

\* A call: its position and locals, and as history the two tables as they
\* were when it started and whether it ran with no other call running.
IdleCall ==
    [op |-> "none", pc |-> "idle", user |-> NoUser, friend |-> NoUser,
     rid |-> NoRequest, group |-> None, todo |-> <<>>, limit |-> 0,
     rows |-> <<>>, result |-> "none",
     before |-> [friendships |-> {}, friend_requests |-> {}], alone |-> TRUE]

\* A call that starts on thread k.
NewCall(k, op, user) ==
    [IdleCall EXCEPT !.op = op, !.user = user,
                     !.before = [friendships |-> friendships,
                                 friend_requests |-> friend_requests],
                     !.alone = \A j \in CallIds \ {k} :
                                  calls[j].pc \in {"idle", "returned"}]

\* The threads after call `new` started on thread k: the calls that are
\* running no longer run alone.
Started(k, new) ==
    [j \in CallIds |->
        IF j = k THEN new
        ELSE IF calls[j].pc \in {"idle", "returned"} THEN calls[j]
        ELSE [calls[j] EXCEPT !.alone = FALSE]]

\* A worker thread is free: it runs no call.
Free(k) == calls[k].pc \in {"idle", "returned"}

\* The call returned or raised: HTTPException status, a database error, or ok.
Return(call, result) == [call EXCEPT !.pc = "returned", !.result = result]

UserByCode(code) == { u \in UsersTable : u.user_code = code }

\* WHERE ((from = u AND to = f) OR (from = f AND to = u)) AND status = 'pending'
PendingBetween(reqs, u, f) ==
    { r \in reqs :
        /\ r.status = "pending"
        /\ \/ (r.from_user_id = u /\ r.to_user_id = f)
           \/ (r.from_user_id = f /\ r.to_user_id = u) }

\* A pair that stops after its first row.
PairRowsOneWay(user_id, friend_id) == << <<user_id, friend_id>> >>

\* _ensure_friendship_pair: the two rows it goes through, in its order
PairRows(user_id, friend_id) == << <<user_id, friend_id>>, <<friend_id, user_id>> >>

\* add_friend: the users lookup by friend_code and the test for oneself
AddFriendStart(k, user, code) ==
    /\ Free(k)
    /\ started < MaxStarts
    /\ started' = started + 1
    /\ LET found == UserByCode(code)
           call == NewCall(k, "add_friend", user)
       IN calls' = Started(k,
             IF found = {} THEN Return(call, "404")
             ELSE LET friend == CHOOSE u \in found : TRUE IN
                  IF friend.id = user
                  THEN Return([call EXCEPT !.friend = friend.id], "400 yourself")
                  ELSE [call EXCEPT !.friend = friend.id, !.pc = "friendship"])
    /\ UNCHANGED <<wsVars, dbVars, pipeVars, lobVars, timeVars, friendVars, groupVars>>

\* add_friend: SELECT id FROM friendships WHERE user_id = u AND friend_id = f
AddFriendFriendship(k) ==
    /\ calls[k].pc = "friendship"
    /\ calls' = [calls EXCEPT ![k] =
          IF schema = "init_db" THEN Return(@, "UndefinedColumn")
          ELSE IF <<@.user, @.friend>> \in friendships
               THEN Return(@, "400 friends")
               ELSE [@ EXCEPT !.pc = "request"]]
    /\ UNCHANGED <<wsVars, dbVars, pipeVars, lobVars, timeVars, friendVars, started, groupVars>>

\* add_friend: the SELECT of a pending request in either direction (fetchone
\* of a query without ORDER BY: any of the rows) and the branches on it
AddFriendRequest(k) ==
    /\ calls[k].pc = "request"
    /\ LET call == calls[k]
           pending == PendingBetween(friend_requests, call.user, call.friend)
       IN IF pending = {}
          THEN calls' = [calls EXCEPT ![k].pc = "insert"]
          ELSE \E existing_req \in pending :
                 calls' = [calls EXCEPT ![k] =
                    IF /\ existing_req.from_user_id = call.friend
                       /\ existing_req.to_user_id = call.user
                    THEN [call EXCEPT !.pc = "ensure_check",
                                      !.todo = PairRows(call.user, call.friend)]
                    ELSE Return(call, "400 pending")]
    /\ UNCHANGED <<wsVars, dbVars, pipeVars, lobVars, timeVars, friendVars, started, groupVars>>

\* add_friend: INSERT INTO friend_requests ... 'pending'; UNIQUE(from_user_id,
\* to_user_id) refuses a second row for the pair whatever its status, after
\* nextval has run
AddFriendInsert(k) ==
    /\ calls[k].pc = "insert"
    /\ LET call == calls[k]
           clash == \E r \in friend_requests :
                       r.from_user_id = call.user /\ r.to_user_id = call.friend
       IN /\ reqSeq' = reqSeq + 1
          /\ friend_requests' =
                IF clash THEN friend_requests
                ELSE friend_requests \cup
                        {[id |-> reqSeq + 1, from_user_id |-> call.user,
                          to_user_id |-> call.friend, status |-> "pending"]}
          /\ calls' = [calls EXCEPT ![k] =
                Return(call, IF clash THEN "UniqueViolation" ELSE "ok")]
    /\ UNCHANGED <<wsVars, dbVars, pipeVars, lobVars, timeVars, schema, friendships,
                   started, groupVars>>

\* After one row of _ensure_friendship_pair: the next row, or the UPDATE.
NextRow(call) ==
    IF Len(call.todo) > 1
    THEN [call EXCEPT !.pc = "ensure_check", !.todo = Tail(@)]
    ELSE [call EXCEPT !.pc = "update", !.todo = <<>>]

\* _ensure_friendship_pair: SELECT id FROM friendships for the current row
EnsureCheck(k) ==
    /\ calls[k].pc = "ensure_check"
    /\ calls' = [calls EXCEPT ![k] =
          IF schema = "init_db" THEN Return(@, "UndefinedColumn")
          ELSE IF Head(@.todo) \in friendships
               THEN NextRow(@)
               ELSE [@ EXCEPT !.pc = "ensure_insert"]]
    /\ UNCHANGED <<wsVars, dbVars, pipeVars, lobVars, timeVars, friendVars, started, groupVars>>

\* _ensure_friendship_pair: INSERT INTO friendships; the primary key
\* (user_id, friend_id) refuses a row another call inserted meanwhile
EnsureInsert(k) ==
    /\ calls[k].pc = "ensure_insert"
    /\ LET row == Head(calls[k].todo) IN
          IF row \in friendships
          THEN /\ calls' = [calls EXCEPT ![k] = Return(@, "UniqueViolation")]
               /\ UNCHANGED friendships
          ELSE /\ friendships' = friendships \cup {row}
               /\ calls' = [calls EXCEPT ![k] = NextRow(@)]
    /\ UNCHANGED <<wsVars, dbVars, pipeVars, lobVars, timeVars, schema, friend_requests,
                   reqSeq, started, groupVars>>

\* UPDATE friend_requests SET status = 'accepted', responded_at = NOW() for
\* the pending rows between the two users
MarkAccepted(reqs, u, f) ==
    { IF r \in PendingBetween(reqs, u, f) THEN [r EXCEPT !.status = "accepted"] ELSE r :
        r \in reqs }

\* add_friend / accept_friend_request: the UPDATE and the return
UpdateRequests(k) ==
    /\ calls[k].pc = "update"
    /\ IF schema = "init_db"
       THEN /\ calls' = [calls EXCEPT ![k] = Return(@, "UndefinedColumn")]
            /\ UNCHANGED friend_requests
       ELSE /\ friend_requests' =
                  MarkAccepted(friend_requests, calls[k].user, calls[k].friend)
            /\ calls' = [calls EXCEPT ![k] = Return(@, "ok")]
    /\ UNCHANGED <<wsVars, dbVars, pipeVars, lobVars, timeVars, schema, friendships,
                   reqSeq, started, groupVars>>

\* A test that lets any user accept a pending request.
AcceptRefusalAnyUser(req, user) ==
    IF req.status # "pending" THEN "400 not pending" ELSE "none"

\* accept_friend_request: the tests on the row that was found
AcceptRefusal(req, user) ==
    IF req.to_user_id # user THEN "403"
    ELSE IF req.status # "pending" THEN "400 not pending"
    ELSE "none"

\* accept_friend_request: the SELECT by id and the three tests on the row
AcceptStart(k, user, rid) ==
    /\ Free(k)
    /\ started < MaxStarts
    /\ started' = started + 1
    /\ LET found == { r \in friend_requests : r.id = rid }
           call == [NewCall(k, "accept_friend_request", user) EXCEPT !.rid = rid]
       IN calls' = Started(k,
             IF found = {} THEN Return(call, "404")
             ELSE LET req == CHOOSE r \in found : TRUE IN
                  IF AcceptRefusal(req, user) # "none"
                  THEN Return(call, AcceptRefusal(req, user))
                  ELSE [call EXCEPT !.friend = req.from_user_id,
                                    !.pc = "ensure_check",
                                    !.todo = PairRows(req.from_user_id, req.to_user_id)])
    /\ UNCHANGED <<wsVars, dbVars, pipeVars, lobVars, timeVars, friendVars, groupVars>>


\* ------------------------------------------------------------------ groups
\* Ids gen_random_uuid() can give a new group.
NewGroupIds == {"g3"}

\* group_id values of the path of join_group, leave_group, add_friend_to_group
AllGroupIds == GroupIds \cup NewGroupIds

MemberRow(g, uid, role) == [group_id |-> g, user_id |-> uid, role |-> role]

\* The orders in which a for loop can go through a set.
Orderings(S) ==
    { q \in [1..Cardinality(S) -> S] : \A i, j \in 1..Cardinality(S) : q[i] = q[j] => i = j }

CodeOf(uid) == (CHOOSE u \in UsersTable : u.id = uid).user_code

\* create_group: INSERT INTO groups ... RETURNING, then the codes of the
\* payload without the caller's own
CreateGroupStart(k, user, g, codes) ==
    /\ Free(k)
    /\ started < MaxStarts
    /\ g \in NewGroupIds \ groups
    /\ started' = started + 1
    /\ groups' = groups \cup {g}
    /\ \E order \in Orderings(codes \ {CodeOf(user)}) :
          calls' = Started(k, [NewCall(k, "create_group", user) EXCEPT
                                  !.group = g, !.todo = order, !.pc = "owner"])
    /\ UNCHANGED <<wsVars, dbVars, pipeVars, lobVars, timeVars, friendVars, group_members>>

\* create_group: after the owner row, and after each code of the loop
NextCode(call) ==
    IF call.todo = <<>> THEN Return(call, "ok") ELSE [call EXCEPT !.pc = "next_code"]

\* create_group: INSERT INTO group_members ... 'owner'
CreateGroupOwner(k) ==
    /\ calls[k].pc = "owner"
    /\ LET call == calls[k] IN
          IF IsMember(call.group, call.user)
          THEN /\ calls' = [calls EXCEPT ![k] = Return(call, "UniqueViolation")]
               /\ UNCHANGED group_members
          ELSE /\ group_members' =
                     group_members \cup {MemberRow(call.group, call.user, "owner")}
               /\ calls' = [calls EXCEPT ![k] = NextCode(call)]
    /\ UNCHANGED <<wsVars, dbVars, pipeVars, lobVars, timeVars, friendVars, started, groups>>

\* create_group: the users lookup for the next code; unknown codes are skipped
CreateGroupNextCode(k) ==
    /\ calls[k].pc = "next_code"
    /\ LET call == calls[k]
           found == UserByCode(Head(call.todo))
       IN calls' = [calls EXCEPT ![k] =
             IF found = {} THEN NextCode([call EXCEPT !.todo = Tail(@)])
             ELSE [call EXCEPT !.friend = (CHOOSE u \in found : TRUE).id,
                               !.todo = Tail(@), !.pc = "member_check"]]
    /\ UNCHANGED <<wsVars, dbVars, pipeVars, lobVars, timeVars, friendVars, started, groupVars>>

\* add_friend_to_group: the caller's role, the users lookup by friend_code
AddToGroupStart(k, user, g, code) ==
    /\ Free(k)
    /\ started < MaxStarts
    /\ started' = started + 1
    /\ LET call == [NewCall(k, "add_friend_to_group", user) EXCEPT !.group = g]
           found == UserByCode(code)
       IN calls' = Started(k,
             IF MemberRow(g, user, "owner") \notin group_members
             THEN Return(call, "403")
             ELSE IF found = {} THEN Return(call, "404")
             ELSE [call EXCEPT !.friend = (CHOOSE u \in found : TRUE).id,
                               !.pc = "invite_friendship"])
    /\ UNCHANGED <<wsVars, dbVars, pipeVars, lobVars, timeVars, friendVars, groupVars>>

\* add_friend_to_group: SELECT 1 FROM friendships WHERE user_id AND friend_id
AddToGroupFriendship(k) ==
    /\ calls[k].pc = "invite_friendship"
    /\ calls' = [calls EXCEPT ![k] =
          IF <<@.user, @.friend>> \in friendships
          THEN [@ EXCEPT !.pc = "member_check"]
          ELSE Return(@, "400 not friends")]
    /\ UNCHANGED <<wsVars, dbVars, pipeVars, lobVars, timeVars, friendVars, started, groupVars>>

\* join_group: entry; the user to add is the caller
JoinGroupStart(k, user, g) ==
    /\ Free(k)
    /\ started < MaxStarts
    /\ started' = started + 1
    /\ calls' = Started(k, [NewCall(k, "join_group", user) EXCEPT
                              !.group = g, !.friend = user, !.pc = "member_check"])
    /\ UNCHANGED <<wsVars, dbVars, pipeVars, lobVars, timeVars, friendVars, groupVars>>

\* After the user was added or found: the loop of create_group goes on, the
\* other two calls return.
AfterMember(call) ==
    IF call.op = "create_group" THEN NextCode(call) ELSE Return(call, "ok")

\* SELECT 1 FROM group_members WHERE group_id AND user_id (create_group,
\* add_friend_to_group, join_group)
MemberCheck(k) ==
    /\ calls[k].pc = "member_check"
    /\ calls' = [calls EXCEPT ![k] =
          IF IsMember(@.group, @.friend)
          THEN AfterMember(@)
          ELSE [@ EXCEPT !.pc = "member_insert"]]
    /\ UNCHANGED <<wsVars, dbVars, pipeVars, lobVars, timeVars, friendVars, started, groupVars>>

\* INSERT INTO group_members ... 'member'; the primary key (group_id,
\* user_id) and the reference to groups can refuse the row
MemberInsert(k) ==
    /\ calls[k].pc = "member_insert"
    /\ LET call == calls[k] IN
          IF call.group \notin groups
          THEN /\ calls' = [calls EXCEPT ![k] = Return(call, "ForeignKeyViolation")]
               /\ UNCHANGED group_members
          ELSE IF IsMember(call.group, call.friend)
          THEN /\ calls' = [calls EXCEPT ![k] = Return(call, "UniqueViolation")]
               /\ UNCHANGED group_members
          ELSE /\ group_members' =
                     group_members \cup {MemberRow(call.group, call.friend, "member")}
               /\ calls' = [calls EXCEPT ![k] = AfterMember(call)]
    /\ UNCHANGED <<wsVars, dbVars, pipeVars, lobVars, timeVars, friendVars, started, groups>>

\* leave_group: DELETE FROM group_members WHERE group_id AND user_id
LeaveGroup(k, user, g) ==
    /\ Free(k)
    /\ started < MaxStarts
    /\ started' = started + 1
    /\ group_members' = { m \in group_members : ~(m.group_id = g /\ m.user_id = user) }
    /\ calls' = Started(k, Return([NewCall(k, "leave_group", user) EXCEPT !.group = g], "ok"))
    /\ UNCHANGED <<wsVars, dbVars, pipeVars, lobVars, timeVars, friendVars, groups>>

\* ------------------------------------------------------- reading a room
\* The clock of the database server moves on.
Tick ==
    /\ now < MaxNow
    /\ now' = now + 1
    /\ UNCHANGED <<wsVars, dbVars, pipeVars, lobVars, friendVars, calls, started,
                   groupVars, created_at>>

\* Values of the query parameter limit (50 when the request has none).
Limits == {1, 2, 50}

\* The rows of group_messages WHERE group_id = g
RoomRows(g) ==
    { group_messages[i] : i \in { j \in 1..Len(group_messages) :
                                      group_messages[j].group_id = g } }

Min(a, b) == IF a < b THEN a ELSE b

\* SELECT ... WHERE group_id = g ORDER BY created_at DESC LIMIT limit: every
\* answer the server may give; rows with the same created_at come in any
\* order, and any of them may be the ones the limit cuts off.
SelectRecent(g, limit) ==
    LET rows == RoomRows(g)
        n == Min(limit, Cardinality(rows))
    IN { q \in [1..n -> rows] :
           /\ \A i, j \in 1..n : i < j =>
                 /\ q[i] # q[j]
                 /\ created_at[q[i].id] >= created_at[q[j].id]
           /\ \A r \in rows \ { q[i] : i \in 1..n } :
                 \A i \in 1..n : created_at[r.id] <= created_at[q[i].id] }

\* rows.reverse()
Reverse(q) == [i \in 1..Len(q) |-> q[Len(q) + 1 - i]]

\* list_group_messages: the membership SELECT
ListGroupMessagesStart(k, user, g, limit) ==
    /\ Free(k)
    /\ started < MaxStarts
    /\ started' = started + 1
    /\ LET call == [NewCall(k, "list_group_messages", user) EXCEPT
                       !.group = g, !.limit = limit]
       IN calls' = Started(k, IF IsMember(g, user)
                              THEN [call EXCEPT !.pc = "select"]
                              ELSE Return(call, "403"))
    /\ UNCHANGED <<wsVars, dbVars, pipeVars, lobVars, timeVars, friendVars, groupVars>>

\* list_group_messages: the SELECT of the rows, rows.reverse(), the return
ListGroupMessagesSelect(k) ==
    /\ calls[k].pc = "select"
    /\ \E q \in SelectRecent(calls[k].group, calls[k].limit) :
          calls' = [calls EXCEPT ![k] = Return([@ EXCEPT !.rows = Reverse(q)], "ok")]
    /\ UNCHANGED <<wsVars, dbVars, pipeVars, lobVars, timeVars, friendVars, started,
                   groupVars>>

\* The state after start-up, whatever the friend tables look like.
InitCore ==
    /\ rooms = [g \in {} |-> <<>>]
    /\ wsPc = [c \in Conns |-> "new"]
    /\ wsReq = [c \in Conns |-> None]
    /\ transport = [c \in Conns |-> "open"]
    /\ bc = [c \in Conns |-> None]
    /\ inbox = [c \in Conns |-> <<>>]
    /\ bcHist = {}
    /\ group_messages = <<>>
    /\ seq = 0
    /\ runs = [r \in RunIds |-> IdleRun]
    /\ pydantic \in {1, 2}
    /\ active_connections = <<>>
    /\ lobPc = [c \in LobbyConns |-> "new"]
    /\ lobUser = [c \in LobbyConns |-> None]
    /\ lobTransport = [c \in LobbyConns |-> "open"]
    /\ lobBc = [c \in LobbyConns |-> None]
    /\ lobText = [c \in LobbyConns |-> <<>>]
    /\ busy = NoHandler
    /\ fm = IdleMatch
    /\ friendships = {}
    /\ friend_requests = {}
    /\ reqSeq = 0
    /\ calls = [k \in CallIds |-> IdleCall]
    /\ started = 0
    /\ now = 0
    /\ created_at = <<>>
    /\ groups = GroupIds
    /\ group_members =
          { [group_id |-> m[1], user_id |-> m[2],
             role |-> IF m \in GroupOwnersTable THEN "owner" ELSE "member"] :
              m \in GroupMembersTable }

\* The friend tables play no part in the channels and the pipeline.
Init == InitCore /\ schema = "init_db"

InitSocial == InitCore /\ schema \in Schemas


WsNext ==
    \/ \E c \in Conns, g \in GroupIds, un \in Usernames, code \in UserCodes :
          WsOpen(c, g, un, code)
    \/ \E c \in Conns : WsAccept(c)
    \/ \E c \in Conns, t \in WsTexts : WsReceive(c, t)
    \/ \E c \in Conns, t \in WsTexts : WsReceiveInsertFails(c, t)
    \/ \E c \in Conns : WsSend(c)
    \/ \E c \in Conns : ClientClose(c)
    \/ \E c \in Conns : WsRecvDisconnect(c)
    \/ \E g \in GroupIds, u \in {1, 2}, t \in WsTexts : HttpPost(g, u, t)
    \/ \E g \in GroupIds : PostAnnouncement(g, FallbackPayload(MountSi))

PipeNext ==
    \/ \E r \in RunIds, g \in GroupIds, t \in PipeTexts : StartPipeline(r, g, t)
    \/ \E r \in RunIds, i \in 1..Len(ExtractResponses) :
          ExtractReturns(r, ExtractResponses[i])
    \/ \E r \in RunIds, primary \in PrimaryOutcomes, pbest \in DbTrails,
          pscore \in Scores : GroundPrimary(r, primary, pbest, pscore)
    \/ \E r \in RunIds, mbest \in MockTrails, mscore \in Scores :
          GroundFallback(r, mbest, mscore)
    \/ \E r \in RunIds, nowMonth \in NowMonths : Enrich(r, nowMonth)
    \/ \E r \in RunIds, i \in 1..Len(SynthResponses), inserted \in BOOLEAN :
          SynthReturns(r, SynthResponses[i], inserted)

LobbyNext ==
    \/ \E c \in LobbyConns, n \in LobbyNames : LobbyOpen(c, n)
    \/ \E c \in LobbyConns : LobbyAccept(c)
    \/ \E c \in LobbyConns, t \in LobbyTexts : LobbyReceive(c, t)
    \/ \E c \in LobbyConns : LobbySend(c)
    \/ \E c \in LobbyConns : LobbyBotReturns(c)
    \/ \E c \in LobbyConns : LobbyClientClose(c)
    \/ \E c \in LobbyConns : LobbyRecvDisconnect(c)

MatchNext ==
    \/ \E primary \in PrimaryOutcomes, pbest \in DbTrails, pscore \in AllScores :
          FuzzyPrimary(primary, pbest, pscore)
    \/ \E mbest \in MockTrails, mscore \in AllScores : FuzzyFallback(mbest, mscore)

\* The payloads of runs that matched a mock trail and fell back.
CommitPayloads == { FallbackPayload(t) : t \in MockTrails }

CommitNext ==
    \/ \E g \in GroupIds, p \in CommitPayloads : PostAnnouncement(g, p)
    \/ \E g \in GroupIds : PostAnnouncementFails(g)
    \/ \E g \in GroupIds, u \in {1, 2}, t \in WsTexts : HttpPost(g, u, t)

FriendNext ==
    \/ \E k \in CallIds, u \in UserIds, code \in FriendCodes : AddFriendStart(k, u, code)
    \/ \E k \in CallIds : AddFriendFriendship(k)
    \/ \E k \in CallIds : AddFriendRequest(k)
    \/ \E k \in CallIds : AddFriendInsert(k)
    \/ \E k \in CallIds : EnsureCheck(k)
    \/ \E k \in CallIds : EnsureInsert(k)
    \/ \E k \in CallIds : UpdateRequests(k)
    \/ \E k \in CallIds, u \in UserIds, rid \in RequestIds : AcceptStart(k, u, rid)

GroupNext ==
    \/ \E k \in CallIds, u \in UserIds, g \in NewGroupIds, codes \in SUBSET FriendCodes :
          CreateGroupStart(k, u, g, codes)
    \/ \E k \in CallIds : CreateGroupOwner(k)
    \/ \E k \in CallIds : CreateGroupNextCode(k)
    \/ \E k \in CallIds, u \in UserIds, g \in AllGroupIds, code \in FriendCodes :
          AddToGroupStart(k, u, g, code)
    \/ \E k \in CallIds : AddToGroupFriendship(k)
    \/ \E k \in CallIds, u \in UserIds, g \in AllGroupIds : JoinGroupStart(k, u, g)
    \/ \E k \in CallIds : MemberCheck(k)
    \/ \E k \in CallIds : MemberInsert(k)
    \/ \E k \in CallIds, u \in UserIds, g \in AllGroupIds : LeaveGroup(k, u, g)

\* The worker thread of a call that runs alone: list_group_messages changes
\* no table and leave_group is one statement, so other threads add nothing.
Worker == CHOOSE k \in CallIds : TRUE

ListNext ==
    \/ Tick
    \/ \E g \in GroupIds, u \in {1, 2}, t \in WsTexts : HttpPost(g, u, t)
    \/ \E g \in GroupIds : PostAnnouncement(g, FallbackPayload(MountSi))
    \/ \E u \in UserIds, g \in GroupIds, limit \in Limits :
          ListGroupMessagesStart(Worker, u, g, limit)
    \/ ListGroupMessagesSelect(Worker)

LeaveNext ==
    \/ \E c \in Conns, g \in GroupIds, un \in Usernames, code \in UserCodes :
          WsOpen(c, g, un, code)
    \/ \E c \in Conns : WsAccept(c)
    \/ \E c \in Conns, t \in WsTexts : WsReceive(c, t)
    \/ \E c \in Conns : WsSend(c)
    \/ \E u \in UserIds, g \in GroupIds : LeaveGroup(Worker, u, g)

Next == WsNext

\* The group channel: ingress loops, HTTP posts and pipeline commits.
Spec == Init /\ [][Next]_vars

\* The observer pipeline.
SpecPipe == Init /\ [][PipeNext]_vars

\* The lobby.
SpecLobby == Init /\ [][LobbyNext]_vars

\* The matcher on every answer of its two sources.
SpecMatch == Init /\ [][MatchNext]_vars

\* The commits of pipeline runs and the HTTP posts on the message store.
SpecCommit == Init /\ [][CommitNext]_vars

\* Concurrent add_friend and accept_friend_request calls.
SpecFriends == InitSocial /\ [][FriendNext]_vars

\* Messages written to a room while the clock moves, and read back.
SpecList == Init /\ [][ListNext]_vars

\* The group channel, with clients that stay connected, while members leave
\* their groups.
SpecLeave == Init /\ [][LeaveNext]_vars

\* The calls that change groups and their members, with the friend calls.
SpecGroups == InitSocial /\ [][FriendNext \/ GroupNext]_vars


\* ================================================================ claims
\* ------------------------------------------------- the group channel (Spec)
IsRegistered(rms, c) == \E g \in DOMAIN rms : c \in RegisteredWs(rms, g)

UserRows == { k \in 1..Len(group_messages) : group_messages[k].role = "user" }

\* m is the message of a stored user row, with the id the store gave it
FromStore(m) ==
    \E k \in UserRows :
        /\ m.id = group_messages[k].id
        /\ m.group_id = group_messages[k].group_id
        /\ m.sender = group_messages[k].sender
        /\ m.content = group_messages[k].content

\* C1 (as stated): every broadcast_json call that ended attempted delivery
\* to exactly the connections registered for the room when it was called.
C1_ExactlyRegisteredAtCall ==
    \A h \in bcHist : h.attempted = h.atCall

\* C2 (as stated): when a send failed during a broadcast, whatever the
\* failure, every other connection of the room was still attempted and the
\* failing connection is not registered once the broadcast has ended.
C2_FailureIsImplicitLeave ==
    \A h \in bcHist :
        h.failed # {} =>
            /\ h.atCall \ h.failed \subseteq h.attempted
            /\ h.failed \cap h.regAfter = {}

\* C3 (as stated): a registered connection stays registered until it itself
\* disconnects or fails, or a newer Join for the same (room, user) replaces
\* it; the step of another connection's handler never unregisters it.
C3_NewerStaysRegistered ==
    [][\A c \in Conns :
          (IsRegistered(rooms, c) /\ ~IsRegistered(rooms', c)) =>
              \/ transport[c] = "closed"
              \/ transport'[c] = "closed"
              \/ \E d \in Conns \ {c} :
                    /\ ~IsRegistered(rooms, d)
                    /\ IsRegistered(rooms', d)
                    /\ wsReq[d] = wsReq[c]]_vars

\* C4: every user-role message that is being broadcast, was broadcast or was
\* delivered is the message of a stored row and carries the id the store
\* assigned; a handler whose INSERT failed broadcasts nothing in that step.
C4_PersistThenBroadcast ==
    /\ [](/\ \A c \in Conns : \A i \in 1..Len(inbox[c]) : FromStore(inbox[c][i])
          /\ \A c \in Conns : wsPc[c] = "bcast" => FromStore(bc[c].msg)
          /\ \A h \in bcHist : FromStore(h.msg))
    /\ [][\A c \in Conns :
            (wsPc[c] # "crashed_persist" /\ wsPc'[c] = "crashed_persist") =>
                /\ inbox' = inbox
                /\ bcHist' = bcHist
                /\ group_messages' = group_messages]_vars

\* C4 witness: a persisted message was delivered, and another inbound text
\* failed to persist.
C4_Witness ==
    /\ \E c \in Conns : Len(inbox[c]) > 0
    /\ \E c \in Conns : wsPc[c] = "crashed_persist"

\* C5 (as stated): no connection receives a message of a room after a
\* message of the same room with a larger id.
C5_DeliveredInAppendOrder ==
    \A c \in Conns : \A i, j \in 1..Len(inbox[c]) :
        (i < j /\ inbox[c][i].group_id = inbox[c][j].group_id) =>
            inbox[c][i].id < inbox[c][j].id

RoomIds(g) ==
    { group_messages[k].id :
        k \in { x \in 1..Len(group_messages) : group_messages[x].group_id = g } }

Gapless(ids) ==
    \A a, b \in ids : \A n \in a..b : n \in ids

\* C6 (as stated): the ids of one room are strictly increasing, without
\* duplicates and without gaps.
C6_RoomIdsGapless ==
    /\ \A i, j \in 1..Len(group_messages) :
          i < j => group_messages[i].id < group_messages[j].id
    /\ \A g \in GroupIds : Gapless(RoomIds(g))

\* C6 (amended): ids are drawn from one sequence shared by all rooms: they
\* are unique in the whole table and strictly increasing in append order,
\* hence within each room, and no id exceeds the sequence's last value.
C6_IdsIncreasing ==
    /\ \A i, j \in 1..Len(group_messages) :
          i < j => group_messages[i].id < group_messages[j].id
    /\ \A i \in 1..Len(group_messages) : group_messages[i].id \in 1..seq

\* C6 witness: a room whose ids have a gap.
C6_Witness ==
    \E g \in GroupIds : ~Gapless(RoomIds(g))

\* C7 (as stated): there is one run_pipeline call for every message the
\* ingress loop persisted and broadcast.
C7_OneRunPerMessage ==
    LET done == { h.msg.id : h \in { x \in bcHist : x.outcome = "returned" } }
        begun == { r \in RunIds : runs[r].pc # "idle" }
    IN Cardinality(begun) = Cardinality(done)

\* ------------------------------------------------ the lobby (SpecLobby)
\* C8 (as stated): while a handler computes the reply to a message, the
\* next inbound text of the same or of another open connection can be
\* received.
C8_IngressNeverWaits ==
    \A c \in LobbyConns :
        lobPc[c] = "bot" =>
            \A d \in LobbyConns :
                (lobTransport[d] = "open" /\ lobPc[d] \in {"recv", "bot"}) =>
                    ENABLED (\E t \in LobbyTexts : LobbyReceive(d, t))

\* ------------------------------------------- the observer pipeline (SpecPipe)
\* text contains phrase k at position i, letter case ignored
MatchesAt(text, k, i) ==
    /\ i + Len(k) - 1 <= Len(text)
    /\ \A j \in 1..Len(k) : Lower(text[i + j - 1]) = Lower(k[j])

HasTrigger(text) ==
    \E k \in Triggers : \E i \in 1..Len(text) : MatchesAt(text, k, i)

\* The inbound texts that contain no trigger phrase.
TextsWithoutTrigger == { t \in PipeTexts : ~HasTrigger(t) }

\* C9: a run whose text contains no trigger phrase, letter case ignored,
\* ends at the gate: no backend call, no matcher call, no row appended.
C9_GateAborts ==
    \A r \in RunIds :
        (runs[r].pc # "idle" /\ runs[r].text \in TextsWithoutTrigger) =>
            /\ runs[r].pc = "aborted_gate"
            /\ runs[r].llm_calls = 0
            /\ runs[r].match_calls = 0
            /\ runs[r].appended = 0

\* C9 witness: a run was called with a text without trigger phrase.
C9_Witness ==
    \E r \in RunIds :
        /\ runs[r].pc = "aborted_gate"
        /\ runs[r].text \in TextsWithoutTrigger

\* C10 (as stated): intent extraction never raises; a run goes on to
\* grounding only with is_planning_trip true and a non-empty subject, and a
\* run that aborted at intent called no matcher and appended nothing.
C10_ExtractionNeverRaises ==
    \A r \in RunIds :
        /\ runs[r].pc # "raised_intent"
        /\ runs[r].pc \in {"ground", "ground_mock", "enrich", "synth"} =>
              (runs[r].ext.is_planning_trip /\ Truthy(runs[r].ext.trail_name_raw))
        /\ runs[r].pc = "aborted_intent" =>
              (runs[r].match_calls = 0 /\ runs[r].appended = 0)

\* ---------------------------------------------------- the matcher (SpecMatch)
\* The second attempt was made.
FallbackConsulted ==
    fm.pc = "fallback" \/ (fm.pc = "returned" /\ fm.mscore # NoScore)

\* C11: the fallback source is consulted exactly when the primary source
\* raised, was empty or gave no accepted match; an accepted primary match is
\* what the call returns, otherwise the fallback's accepted match, and
\* run_pipeline returns early exactly when neither source gave one.
C11_PrimaryThenFallback ==
    /\ fm.pc # "idle" => (FallbackConsulted <=> fm.presult = NoTrail)
    /\ fm.primary \in {"error", "empty"} => FallbackConsulted
    /\ fm.presult # NoTrail => (fm.primary = "rows" /\ fm.presult = fm.pbest)
    /\ fm.mresult # NoTrail => fm.mresult = fm.mbest
    /\ fm.pc = "returned" =>
          /\ fm.result = IF fm.presult # NoTrail THEN fm.pbest ELSE fm.mresult
          /\ fm.aborts <=> (fm.presult = NoTrail /\ fm.mresult = NoTrail)

\* C11 witness: the primary source had rows but no accepted match, and the
\* call returned the fallback's match.
C11_Witness ==
    /\ fm.pc = "returned"
    /\ fm.primary = "rows"
    /\ fm.presult = NoTrail
    /\ fm.result # NoTrail
    /\ fm.result = fm.mbest
    /\ ~fm.aborts

\* C12 (as stated): a best match is rejected exactly when its score is
\* below the threshold of its source; a score equal to the threshold is
\* accepted.
C12_RejectedExactlyBelowThreshold ==
    /\ fm.primary = "rows" =>
          (fm.presult = NoTrail <=> fm.pscore < PrimaryThreshold)
    /\ fm.mscore # NoScore =>
          (fm.mresult = NoTrail <=> fm.mscore < FallbackThreshold)

\* ------------------------------------ the observer pipeline, after grounding
AssistantRows ==
    { k \in 1..Len(group_messages) : group_messages[k].role = "assistant" }

RECURSIVE SumAppended(_)
SumAppended(n) == IF n = 0 THEN 0 ELSE runs[n].appended + SumAppended(n - 1)

\* A field the payload does not have.
Absent == [t |-> "absent", v |-> <<>>]

HasPiece(str, piece) == \E i \in 1..Len(str.v) : str.v[i] = piece

\* C13 (as stated): the step that follows grounding always ends with a
\* weather text and the synthesis call issued, whatever target_date_str is.
C13_AlwaysReachesSynthesis ==
    [][\A r \in RunIds :
          (runs[r].pc = "enrich" /\ runs'[r].pc # "enrich") =>
              /\ runs'[r].pc = "synth"
              /\ runs'[r].weather # ""
              /\ runs'[r].llm_calls = runs[r].llm_calls + 1]_vars

\* The payload of a run whose synthesis call failed is built from the
\* matched trail: its name in the title, its length and gain in the stats.
BuiltFromTrail(run) ==
    LET title == DictGet(run.payload, "title", Absent)
        stats == DictGet(run.payload, "stats", Absent)
    IN /\ run.trail # NoTrail
       /\ title.t = "str" /\ HasPiece(title, run.trail.name)
       /\ stats.t = "dict"
       /\ DictHas(stats, "dist") /\ DictHas(stats, "elev")
       /\ HasPiece(DictGet(stats, "dist", Absent), run.trail.length_km)
       /\ HasPiece(DictGet(stats, "elev", Absent), run.trail.elevation_gain_m)

\* The run's payload is the content of an assistant row of its room.
Committed(run) ==
    \E k \in AssistantRows :
        /\ group_messages[k].group_id = run.chat_id
        /\ group_messages[k].user_id = NullUser
        /\ JsonLoads(group_messages[k].content).value = run.payload

\* C14 (as stated): a run whose synthesis call failed appends exactly one
\* assistant message, built from the trail; never zero, never more.
C14_ExactlyOneOnSynthesisFailure ==
    /\ \A r \in RunIds :
          (runs[r].pc = "done" /\ runs[r].synth = "failed") =>
              /\ BuiltFromTrail(runs[r])
              /\ runs[r].appended = 1
              /\ Committed(runs[r])
    /\ Cardinality(AssistantRows) = SumAppended(MaxRuns)

\* C14 (amended): a run whose synthesis call failed hands the payload built
\* from the trail to the commit, which tries the INSERT once: the run
\* appends that one assistant message when the INSERT succeeds and none
\* when it raises; never more than one.
C14_FallbackOnSynthesisFailure ==
    /\ \A r \in RunIds :
          (runs[r].pc = "done" /\ runs[r].synth = "failed") =>
              /\ BuiltFromTrail(runs[r])
              /\ runs[r].insert_calls = 1
              /\ runs[r].appended = IF runs[r].insert_errors = 0 THEN 1 ELSE 0
              /\ runs[r].appended = 1 => Committed(runs[r])
    /\ Cardinality(AssistantRows) = SumAppended(MaxRuns)

\* C14 witness: the synthesis call failed and the fallback was appended.
C14_Witness ==
    \E r \in RunIds :
        /\ runs[r].pc = "done"
        /\ runs[r].synth = "failed"
        /\ runs[r].appended = 1
        /\ Committed(runs[r])

SchemaFields == {"title", "summary", "stats", "weather_warning", "gear_required"}

\* C16 (as stated): the content of every assistant row is a JSON object
\* with every field of the synthesis schema.
C16_CommittedPayloadConforms ==
    \A k \in AssistantRows :
        LET parsed == JsonLoads(group_messages[k].content) IN
        /\ parsed.ok
        /\ parsed.value.t = "dict"
        /\ \A f \in SchemaFields : DictHas(parsed.value, f)

\* C17: a commit whose INSERT raised ends the run without exception, after
\* that one attempt, with nothing appended.
C17_PersistenceErrorAborts ==
    /\ [](\A r \in RunIds :
            runs[r].insert_errors > 0 =>
                /\ runs[r].pc = "done"
                /\ runs[r].insert_calls = 1
                /\ runs[r].insert_errors = 1
                /\ runs[r].appended = 0)
    /\ [][\A r \in RunIds :
            runs'[r].insert_errors > runs[r].insert_errors =>
                group_messages' = group_messages]_vars

\* C17 witness: a run whose INSERT raised has returned.
C17_Witness ==
    \E r \in RunIds :
        /\ runs[r].pc = "done"
        /\ runs[r].insert_errors = 1
        /\ runs[r].trail # NoTrail

\* C20 (as stated): the consumer renders every committed payload as a card
\* whose title, stats and gear are the payload's.
C20_RoundTrip ==
    \A r \in RunIds : \A k \in AssistantRows :
        (/\ runs[r].pc = "done"
         /\ runs[r].appended = 1
         /\ group_messages[k].group_id = runs[r].chat_id
         /\ group_messages[k].content = JsonDumps(runs[r].payload)) =>
            LET card == RenderRichMessage(BuildMsg(group_messages[k])) IN
            /\ card.is_announcement
            /\ card.title = DictGet(runs[r].payload, "title", Absent)
            /\ card.stats = DictGet(runs[r].payload, "stats", Absent)
            /\ card.gear = DictGet(runs[r].payload, "gear_required", Absent)

\* ------------------------------------------- the commit and the group channel
\* A broadcast_json call has been made for the message with this id.
BroadcastCalled(id) ==
    \/ \E h \in bcHist : h.msg.id = id
    \/ \E c \in Conns : wsPc[c] = "bcast" /\ bc[c].msg.id = id

\* C15 (as stated): every assistant row is stored with no author in its
\* room and is handed to the Room Registry's broadcast_json.
C15_CommitThenBroadcast ==
    \A k \in AssistantRows :
        /\ group_messages[k].user_id = NullUser
        /\ group_messages[k].group_id \in GroupIds
        /\ BroadcastCalled(group_messages[k].id)

AssistantRowsOf(msgs, g) ==
    { k \in 1..Len(msgs) : msgs[k].role = "assistant" /\ msgs[k].group_id = g }

KnownPair(username, code) ==
    \E u \in UsersTable : u.username = username /\ u.user_code = code

\* That user is a member of the group.
MemberPair(g, username, code) ==
    \E u \in UsersTable :
        /\ u.username = username
        /\ u.user_code = code
        /\ <<g, u.id>> \in GroupMembersTable

Rejected(c, code) ==
    /\ wsPc'[c] = code
    /\ rooms' = rooms
    /\ group_messages' = group_messages
    /\ seq' = seq

\* C19: a connection attempt with an unknown (username, user_code) pair is
\* closed with 4401, one by a non-member with 4403; in both cases the
\* registry and the message store are unchanged, and a rejected connection
\* is never registered.
C19_RejectedBeforeRegistry ==
    /\ [][\A c \in Conns, g \in GroupIds, un \in Usernames, code \in UserCodes :
            WsOpen(c, g, un, code) =>
                /\ ~KnownPair(un, code) => Rejected(c, "closed4401")
                /\ (KnownPair(un, code) /\ ~MemberPair(g, un, code)) =>
                       Rejected(c, "closed4403")]_vars
    /\ [](\A c \in Conns :
            wsPc[c] \in {"closed4401", "closed4403"} =>
                /\ ~IsRegistered(rooms, c)
                /\ inbox[c] = <<>>)

\* C19 witness: one attempt was rejected for identity, one for membership.
C19_Witness ==
    \E c, d \in Conns : wsPc[c] = "closed4401" /\ wsPc[d] = "closed4403"

\* ---------------------------------------------------- the registry (Spec)
\* C21: no room key of the registry maps to an empty connection set; in
\* every reachable registry, disconnect of a registered (room, user) removes
\* that entry, keeps the others and drops the room when it became empty,
\* and disconnect of a user or room that is not registered changes nothing.
C21_NoEmptyRoom ==
    /\ \A g \in DOMAIN rooms : rooms[g] # <<>>
    /\ \A g \in GroupIds, uid \in UserIds :
          LET after == Disconnect(rooms, g, uid) IN
          IF HasUid(RoomOf(rooms, g), uid)
          THEN /\ ~HasUid(RoomOf(after, g), uid)
               /\ \A x \in DOMAIN after : after[x] # <<>>
               /\ RegisteredWs(after, g) \subseteq RegisteredWs(rooms, g)
               /\ Cardinality(RegisteredWs(after, g)) =
                     Cardinality(RegisteredWs(rooms, g)) - 1
               /\ \A x \in GroupIds \ {g} : RoomOf(after, x) = RoomOf(rooms, x)
          ELSE after = rooms

\* C21 witness: a handler has left its room and the room's key is gone.
C21_Witness ==
    \E c \in Conns :
        /\ wsPc[c] = "done"
        /\ wsReq[c].group_id \notin DOMAIN rooms

Terminated == {"done", "crashed_persist", "crashed_send"}

\* C22 (as stated): a connection whose ingress loop has terminated, for
\* whatever reason, is not in the registry.
C22_TerminatedIsUnregistered ==
    \A c \in Conns : wsPc[c] \in Terminated => ~IsRegistered(rooms, c)

\* C23 (as stated): the step on which a broadcast returns unregisters only
\* connections whose send failed in that broadcast.
C23_CleanupOnlyFailed ==
    [][\A h \in bcHist' \ bcHist :
          h.outcome = "returned" =>
              \A d \in Conns :
                  (IsRegistered(rooms, d) /\ d \notin h.failed) =>
                      IsRegistered(rooms', d)]_vars

\* ------------------------------------------------- friends (SpecFriends)
\* Call k returns on this step.
Returns(k) == calls'[k] # calls[k] /\ calls'[k].pc = "returned"

PendingFromTo(reqs, u, f) ==
    { r \in reqs : r.status = "pending" /\ r.from_user_id = u /\ r.to_user_id = f }

FriendTablesAre(fs, reqs) == friendships' = fs /\ friend_requests' = reqs

\* C26 (as stated): an add_friend call of user u for a user f that ran with
\* no other call running leaves the tables as the claim says: acceptance
\* when f had a pending request to u, one new pending request when there
\* was none between them, failure without a change for f = u, an existing
\* friendship or a request already pending from u to f.
C26_AddFriendOutcome ==
    [][\A k \in CallIds :
          (/\ Returns(k)
           /\ calls'[k].op = "add_friend"
           /\ calls'[k].alone
           /\ calls'[k].friend # NoUser) =>
             LET c == calls'[k]
                 u == c.user
                 f == c.friend
                 b == c.before
                 mine == PendingFromTo(b.friend_requests, u, f)
                 theirs == PendingFromTo(b.friend_requests, f, u)
             IN CASE f = u \/ <<u, f>> \in b.friendships \/ (mine # {} /\ theirs = {}) ->
                       /\ c.result # "ok"
                       /\ FriendTablesAre(b.friendships, b.friend_requests)
                  [] f # u /\ <<u, f>> \notin b.friendships /\ theirs # {} /\ mine = {} ->
                       /\ c.result = "ok"
                       /\ {<<u, f>>, <<f, u>>} \subseteq friendships'
                       /\ PendingBetween(friend_requests', u, f) = {}
                  [] f # u /\ <<u, f>> \notin b.friendships /\ theirs = {} /\ mine = {} ->
                       /\ c.result = "ok"
                       /\ friendships' = b.friendships
                       /\ b.friend_requests \subseteq friend_requests'
                       /\ Cardinality(friend_requests' \ b.friend_requests) = 1
                       /\ \A r \in friend_requests' \ b.friend_requests :
                             /\ r.from_user_id = u
                             /\ r.to_user_id = f
                             /\ r.status = "pending"
                  [] OTHER -> TRUE]_vars

Quiescent == \A k \in CallIds : Free(k)

Friends(u, f) == <<u, f>> \in friendships /\ <<f, u>> \in friendships

\* C27: an accept_friend_request call for a request that does not exist, is
\* addressed to another user or is not pending fails and leaves both tables
\* as they were; a call that succeeds was made by the recipient of a
\* pending request and leaves the two users friends with no pending request
\* between them; an accepted request stays accepted.
C27_OnlyRecipientWhilePending ==
    /\ [][\A k \in CallIds :
            (Returns(k) /\ calls'[k].op = "accept_friend_request") =>
               LET c == calls'[k]
                   b == c.before
                   req == { r \in b.friend_requests : r.id = c.rid }
                   mayAccept == \E r \in req :
                                   r.to_user_id = c.user /\ r.status = "pending"
               IN /\ ~mayAccept =>
                        /\ c.result \in {"404", "403", "400 not pending"}
                        /\ FriendTablesAre(b.friendships, b.friend_requests)
                  /\ c.result = "ok" =>
                        /\ mayAccept
                        /\ \A r \in req :
                              /\ <<r.from_user_id, r.to_user_id>> \in friendships'
                              /\ <<r.to_user_id, r.from_user_id>> \in friendships'
                              /\ PendingBetween(friend_requests',
                                                r.from_user_id, r.to_user_id) = {}]_vars
    /\ [][\A r \in friend_requests :
            r.status = "accepted" =>
               \E n \in friend_requests' : n.id = r.id /\ n.status = "accepted"]_vars

\* C27 witness: a recipient's accept has succeeded and another call on the
\* same request was refused.
C27_Witness ==
    \E k, j \in CallIds :
        /\ calls[k].op = "accept_friend_request"
        /\ calls[k].pc = "returned"
        /\ calls[k].result = "ok"
        /\ Friends(calls[k].user, calls[k].friend)
        /\ calls[j].op = "accept_friend_request"
        /\ calls[j].pc = "returned"
        /\ calls[j].result \in {"403", "400 not pending"}

C29_OnePendingPerPair ==
    \A u, f \in UserIds :
        /\ Cardinality(PendingBetween(friend_requests, u, f)) <= 1
        /\ (Quiescent /\ <<u, f>> \in friendships) =>
               PendingBetween(friend_requests, u, f) = {}

\* C24 (as stated): every group whose create_group has written its owner row
\* has at least one member with the role 'owner', in every state.
C24_AlwaysAnOwner ==
    \A g \in groups :
        (\A k \in CallIds : ~(calls[k].pc = "owner" /\ calls[k].group = g)) =>
            \E m \in group_members : m.group_id = g /\ m.role = "owner"

\* C25 (as stated): a list_group_messages call that answers returns at most
\* limit rows, with strictly increasing ids, and they are the rows of the room
\* with the highest ids (the most recently appended), also when rows carry
\* the same created_at.
C25_RecentInInsertionOrder ==
    [][\A k \in CallIds :
          (Returns(k) /\ calls'[k].op = "list_group_messages"
                      /\ calls'[k].result = "ok") =>
             LET rows == calls'[k].rows
                 ids == { r.id : r \in RoomRows(calls'[k].group) }
                 got == { rows[i].id : i \in 1..Len(rows) }
             IN /\ Len(rows) = Min(calls'[k].limit, Cardinality(ids))
                /\ \A i \in 1..(Len(rows) - 1) : rows[i].id < rows[i + 1].id
                /\ got \subseteq ids
                /\ \A a \in got, b \in ids \ got : b < a]_vars

\* C30 (as stated): every connection in the registry of a group belongs to a
\* user who is a member of the group, and every user message the ingress
\* loop stores and hands to broadcast_json is authored by a member of its
\* group at that moment, and a broadcast frame is delivered only to
\* connections of members.
C30_OnlyCurrentMembers ==
    /\ [](\A g \in DOMAIN rooms : \A i \in 1..Len(rooms[g]) :
             IsMember(g, rooms[g][i].uid))
    /\ [][(/\ Len(group_messages') = Len(group_messages) + 1
            /\ (wsPc' # wsPc \/ bcHist' # bcHist)) =>
              LET row == group_messages'[Len(group_messages')] IN
              row.role = "user" => IsMember(row.group_id, row.user_id)]_vars
    /\ [][\A c \in Conns :
             Len(inbox'[c]) > Len(inbox[c]) =>
                IsMember(wsReq[c].group_id, wsReq[c].uid)]_vars

====
